---- MODULE Spec2Model ----
(***************************************************************************)
(* AlphaBlokus: the rules engine of src/game_engine (pieces.py, board.py,  *)
(* rules.py) as a state machine.  A play is a sequence of apply_move calls *)
(* from BoardState(); check_legal_move and get_legal_moves are pure        *)
(* functions of the current BoardState and are modelled as operators that  *)
(* the actions below call.                                                 *)
(***************************************************************************)
EXTENDS Integers, Sequences, FiniteSets, TLC

\* ------------------------------------------------------------------------
\* Bounds of the model.
\* ------------------------------------------------------------------------

\* board.py:14 sets BOARD_SIZE = 20.  Every rule of rules.py is written in
\* terms of BOARD_SIZE; the model plays on a smaller square board so that
\* the four colours meet within a few plies.
BOARD_SIZE == 3

\* board.py:30 gives every colour set(range(21)).  The model gives every
\* colour the first NUM_PIECE_IDS ids of ALL_SHAPES.
NUM_PIECE_IDS == 2

\* Longest play explored (number of apply_move calls).
MaxPly == 5

\* Most BoardState objects alive at once in the plays that track object
\* identity.
MaxStates == 4

\* An apply_move call with an unchecked placement is made while at most
\* this many BoardState objects are alive.
MaxStatesUnchecked == 2

\* A search is started on a position at most MaxRootPly plies into a game
\* and runs at most MaxSims simulations.
MaxRootPly == 1

\* A search is also started on the positions at most MaxBlockedPly plies
\* into a game in which the player to move has no legal placement.
MaxBlockedPly == 4

MaxSims == 4

\* The logits given to decode_policy on its own vary on the piece ids
\* 0..NumPolicyIds and on pass; the ids 0..NumPolicyIds-1 may be legal.
NumPolicyIds == 3

\* In the late positions given to is_terminal and compute_final_scores a
\* colour may still hold any of the piece ids 0..NumLateIds-1.
NumLateIds == 3

\* ------------------------------------------------------------------------
\* Program constants.
\* ------------------------------------------------------------------------

\* board.py:13
NUM_PLAYERS == 4

\* board.py:27: an empty cell holds None.
None == -1

\* rules.py:137-140: apply_move(state, None) is a pass.
NoMove == <<>>

\* ------------------------------------------------------------------------
\* pieces.py
\* ------------------------------------------------------------------------

SetMin(S) == CHOOSE x \in S : \A y \in S : x <= y

SetMax(S) == CHOOSE x \in S : \A y \in S : y <= x

\* pieces.py:22-30
normalize_shape(shape) ==
    LET min_r == SetMin({rc[1] : rc \in shape})
        min_c == SetMin({rc[2] : rc \in shape})
    IN  {<<rc[1] - min_r, rc[2] - min_c>> : rc \in shape}

\* pieces.py:32-39
rotate_90(shape) == normalize_shape({<<rc[2], -rc[1]>> : rc \in shape})

\* pieces.py:41-47
flip_horizontal(shape) == normalize_shape({<<rc[1], -rc[2]>> : rc \in shape})

\* pieces.py:49-76: four rotations, each also flipped, collected in a set.
\* Mutant of get_all_orientations: the four rotations without the flips.
get_all_orientations_rotations_only(shape) ==
    LET c0 == normalize_shape(shape)
        c1 == rotate_90(c0)
        c2 == rotate_90(c1)
        c3 == rotate_90(c2)
        c4 == rotate_90(c3)
    IN  {c1, c2, c3, c4}

get_all_orientations(shape) ==
    LET c0 == normalize_shape(shape)
        c1 == rotate_90(c0)
        c2 == rotate_90(c1)
        c3 == rotate_90(c2)
        c4 == rotate_90(c3)
    IN  {c1, flip_horizontal(c1), c2, flip_horizontal(c2),
         c3, flip_horizontal(c3), c4, flip_horizontal(c4)}

\* pieces.py:81-136, index = piece_id (0..20).
ALL_SHAPES ==
    [p \in 0..20 |->
      << {<<0,0>>},
         {<<0,0>>,<<0,1>>},
         {<<0,0>>,<<0,1>>,<<0,2>>},
         {<<0,0>>,<<1,0>>,<<1,1>>},
         {<<0,0>>,<<0,1>>,<<0,2>>,<<1,1>>},
         {<<0,0>>,<<1,0>>,<<2,0>>,<<2,1>>},
         {<<0,1>>,<<0,2>>,<<1,0>>,<<1,1>>},
         {<<0,0>>,<<0,1>>,<<1,0>>,<<1,1>>},
         {<<0,0>>,<<0,1>>,<<0,2>>,<<0,3>>},
         {<<0,1>>,<<1,0>>,<<1,1>>,<<1,2>>,<<2,0>>},
         {<<0,0>>,<<0,1>>,<<0,2>>,<<0,3>>,<<0,4>>},
         {<<0,0>>,<<1,0>>,<<2,0>>,<<3,0>>,<<3,1>>},
         {<<0,0>>,<<0,1>>,<<1,0>>,<<1,1>>,<<2,0>>},
         {<<0,0>>,<<1,0>>,<<2,0>>,<<3,0>>,<<3,1>>},
         {<<0,0>>,<<0,1>>,<<0,2>>,<<1,1>>,<<2,1>>},
         {<<0,0>>,<<0,2>>,<<1,0>>,<<1,1>>,<<1,2>>},
         {<<0,0>>,<<1,0>>,<<2,0>>,<<3,0>>,<<3,1>>},
         {<<0,2>>,<<1,1>>,<<1,2>>,<<2,0>>,<<2,1>>},
         {<<0,1>>,<<1,0>>,<<1,1>>,<<1,2>>,<<2,1>>},
         {<<0,0>>,<<1,0>>,<<2,0>>,<<3,0>>,<<2,1>>},
         {<<0,0>>,<<0,1>>,<<1,1>>,<<1,2>>,<<2,2>>} >>[p + 1]]

\* The ids the model's colours hold at the start (board.py:30, bounded).
PieceIds == 0..(NUM_PIECE_IDS - 1)

\* rules.py:109-111: get_all_orientations(ALL_SHAPES[piece_id]), tabulated.
ORIENTATIONS == [p \in PieceIds |-> get_all_orientations(ALL_SHAPES[p])]

\* ------------------------------------------------------------------------
\* board.py
\* ------------------------------------------------------------------------

Rows == 0..(BOARD_SIZE - 1)

Colors == 0..(NUM_PLAYERS - 1)

\* board.py:25-40: BoardState.__init__
BoardState ==
    [board_grid         |-> [r \in Rows |-> [c \in Rows |-> None]],
     pieces_remaining   |-> [color \in Colors |-> PieceIds],
     current_player     |-> 0,
     moves_made         |-> [color \in Colors |-> 0],
     consecutive_passes |-> 0]

\* board.py:42-52: BoardState.clone starts from BoardState() and copies
\* every field of self into it.
clone(self) ==
    [BoardState EXCEPT
        !.board_grid         = [r \in Rows |-> [c \in Rows |-> self.board_grid[r][c]]],
        !.pieces_remaining   = [color \in Colors |-> self.pieces_remaining[color]],
        !.current_player     = self.current_player,
        !.moves_made         = [color \in Colors |-> self.moves_made[color]],
        !.consecutive_passes = self.consecutive_passes]

\* ------------------------------------------------------------------------
\* rules.py
\* ------------------------------------------------------------------------

\* rules.py:19
CORNER_POSITIONS ==
    [color \in Colors |->
        << <<0, 0>>, <<0, BOARD_SIZE - 1>>, <<BOARD_SIZE - 1, 0>>,
           <<BOARD_SIZE - 1, BOARD_SIZE - 1>> >>[color + 1]]

\* rules.py:43, 79, 86: 0 <= rr < BOARD_SIZE and 0 <= cc < BOARD_SIZE
in_board(rr, cc) == 0 <= rr /\ rr < BOARD_SIZE /\ 0 <= cc /\ cc < BOARD_SIZE

\* rules.py:38-41, 48: the absolute board squares of a move.
placed_squares(move) == {<<rc[1] + move[2], rc[2] + move[3]>> : rc \in move[4]}

\* rules.py:156: board_grid[rr][cc] indexes two Python lists of length
\* BOARD_SIZE.  An index i with -BOARD_SIZE <= i < BOARD_SIZE addresses an
\* element, a negative one counting from the end; any other index raises
\* IndexError.
index_in_range(i) == 0 - BOARD_SIZE <= i /\ i < BOARD_SIZE

list_index(i) == IF i < 0 THEN i + BOARD_SIZE ELSE i

\* rules.py:153-156: the cells of the grid that the loop assigns.
written_squares(move) ==
    { <<list_index(sq[1]), list_index(sq[2])>> :
        sq \in { q \in placed_squares(move) :
                    index_in_range(q[1]) /\ index_in_range(q[2]) } }

\* Mutant of piece_available: only asks that the id is one of the 21 ids.
piece_available_any_id(state, move) == move[1] \in 0..20

\* rules.py:34: the piece is in the current player's remaining set.
piece_available(state, move) ==
    move[1] \in state.pieces_remaining[state.current_player]

\* rules.py:39-47: every square is within the board and not occupied.
squares_free(state, move) ==
    \A sq \in placed_squares(move) :
        /\ in_board(sq[1], sq[2])
        /\ state.board_grid[sq[1]][sq[2]] = None

\* Mutant of covers_corner: any of the four corners will do.
covers_corner_any(state, move) ==
    \E color \in Colors : CORNER_POSITIONS[color] \in placed_squares(move)

\* Mutant of covers_corner: every colour is held to colour 0's corner.
covers_corner_of_first(state, move) ==
    CORNER_POSITIONS[0] \in placed_squares(move)

\* rules.py:53-56: the colour's corner is among the placed squares.
covers_corner(state, move) ==
    CORNER_POSITIONS[state.current_player] \in placed_squares(move)

edge_neighbors == {<<0,1>>, <<0,-1>>, <<1,0>>, <<-1,0>>}

corner_neighbors == {<<1,1>>, <<1,-1>>, <<-1,1>>, <<-1,-1>>}

\* Mutant of edge_contact: looks right and down only.
edge_contact_two_sides(state, move) ==
    \E sq \in placed_squares(move) : \E d \in {<<0,1>>, <<1,0>>} :
        LET nr == sq[1] + d[1]
            nc == sq[2] + d[2]
        IN  in_board(nr, nc) /\ state.board_grid[nr][nc] = state.current_player

\* rules.py:75-82: some placed square has an in-board edge neighbour of the
\* current colour.
edge_contact(state, move) ==
    \E sq \in placed_squares(move) : \E d \in edge_neighbors :
        LET nr == sq[1] + d[1]
            nc == sq[2] + d[2]
        IN  in_board(nr, nc) /\ state.board_grid[nr][nc] = state.current_player

\* Mutant of corner_contact: a diagonal neighbour of any colour counts.
corner_contact_any_color(state, move) ==
    \E sq \in placed_squares(move) : \E d \in corner_neighbors :
        LET nr == sq[1] + d[1]
            nc == sq[2] + d[2]
        IN  in_board(nr, nc) /\ state.board_grid[nr][nc] # None

\* rules.py:84-88: some placed square has an in-board diagonal neighbour of
\* the current colour.
corner_contact(state, move) ==
    \E sq \in placed_squares(move) : \E d \in corner_neighbors :
        LET nr == sq[1] + d[1]
            nc == sq[2] + d[2]
        IN  in_board(nr, nc) /\ state.board_grid[nr][nc] = state.current_player

\* rules.py:21-94
check_legal_move(state, move) ==
    LET color == state.current_player
    IN  IF ~piece_available(state, move) THEN FALSE
        ELSE IF ~squares_free(state, move) THEN FALSE
        ELSE IF state.moves_made[color] = 0 THEN covers_corner(state, move)
        ELSE IF edge_contact(state, move) THEN FALSE
        ELSE corner_contact(state, move)

\* Mutant of offsets: both ranges one short.
offsets_one_short(orientation) ==
    LET max_r == SetMax({rc[1] : rc \in orientation})
        max_c == SetMax({rc[2] : rc \in orientation})
    IN  (0..(BOARD_SIZE - max_r - 2)) \X (0..(BOARD_SIZE - max_c - 2))

\* rules.py:123-129: the offsets that keep the orientation's bounding box
\* on the board.
offsets(orientation) ==
    LET max_r == SetMax({rc[1] : rc \in orientation})
        max_c == SetMax({rc[2] : rc \in orientation})
    IN  (0..(BOARD_SIZE - max_r - 1)) \X (0..(BOARD_SIZE - max_c - 1))

\* rules.py:97-134.  The list is built in the iteration order of Python
\* sets; the model keeps the collection of its elements.
get_legal_moves(state) ==
    LET color == state.current_player
        available_pieces == state.pieces_remaining[color]
    IN  UNION { UNION { { <<piece_id, off[1], off[2], orientation>> :
                            off \in { o \in offsets(orientation) :
                                check_legal_move(state, <<piece_id, o[1], o[2], orientation>>) } } :
                        orientation \in get_all_orientations(ALL_SHAPES[piece_id]) } :
                piece_id \in available_pieces }

\* Mutant of place_piece: the placement is not counted in moves_made.
place_piece_uncounted(new_state, move) ==
    LET color == new_state.current_player
        piece_id == move[1]
        squares == written_squares(move)
    IN  [new_state EXCEPT
            !.pieces_remaining[color] = @ \ {piece_id},
            !.board_grid = [r \in Rows |-> [c \in Rows |->
                                IF <<r, c>> \in squares THEN color ELSE @[r][c]]],
            !.consecutive_passes = 0]

\* Mutant of place_piece: the piece stays in the remaining set.
place_piece_keeps_piece(new_state, move) ==
    LET color == new_state.current_player
        squares == written_squares(move)
    IN  [new_state EXCEPT
            !.board_grid = [r \in Rows |-> [c \in Rows |->
                                IF <<r, c>> \in squares THEN color ELSE @[r][c]]],
            !.moves_made[color] = @ + 1,
            !.consecutive_passes = 0]

\* Mutant of place_piece: consecutive_passes is not reset.
place_piece_keeps_passes(new_state, move) ==
    LET color == new_state.current_player
        piece_id == move[1]
        squares == written_squares(move)
    IN  [new_state EXCEPT
            !.pieces_remaining[color] = @ \ {piece_id},
            !.board_grid = [r \in Rows |-> [c \in Rows |->
                                IF <<r, c>> \in squares THEN color ELSE @[r][c]]],
            !.moves_made[color] = @ + 1]

\* rules.py:150-159: the placement branch of apply_move.
place_piece(new_state, move) ==
    LET color == new_state.current_player
        piece_id == move[1]
        squares == written_squares(move)
    IN  [new_state EXCEPT
            !.pieces_remaining[color] = @ \ {piece_id},
            !.board_grid = [r \in Rows |-> [c \in Rows |->
                                IF <<r, c>> \in squares THEN color ELSE @[r][c]]],
            !.moves_made[color] = @ + 1,
            !.consecutive_passes = 0]

\* Mutant of pass_turn: the pass is not counted.
pass_turn_uncounted(new_state) == new_state

\* Mutant of pass_turn: a pass is also counted as a move made.
pass_turn_counts_move(new_state) ==
    [new_state EXCEPT !.consecutive_passes = @ + 1,
                      !.moves_made[new_state.current_player] = @ + 1]

\* rules.py:145-147: the pass branch of apply_move.
pass_turn(new_state) ==
    [new_state EXCEPT !.consecutive_passes = @ + 1]

\* Mutant of next_player: the turn order runs the other way.
next_player_backwards(color) == (color + 3) % 4

\* rules.py:161-162: the colour that moves next.
next_player(color) == (color + 1) % 4

\* Mutant of apply_move_raises: the piece is taken out with set.discard,
\* which accepts an absent element.
apply_move_raises_discard(state, move) ==
    IF move = NoMove THEN "none"
    ELSE IF \E sq \in placed_squares(move) :
                ~index_in_range(sq[1]) \/ ~index_in_range(sq[2])
    THEN "IndexError"
    ELSE "none"

\* rules.py:151, 156: the exception that ends the call apply_move(state,
\* move), "none" when it returns.  set.remove raises KeyError for an id
\* that is not in the set, before any cell is written; a list index out of
\* range raises IndexError.  Nothing else in apply_move raises or tests.
apply_move_raises(state, move) ==
    IF move = NoMove THEN "none"
    ELSE IF move[1] \notin state.pieces_remaining[state.current_player]
    THEN "KeyError"
    ELSE IF \E sq \in placed_squares(move) :
                ~index_in_range(sq[1]) \/ ~index_in_range(sq[2])
    THEN "IndexError"
    ELSE "none"

\* rules.py:137-164, the state returned when the call returns.
apply_move(state, move) ==
    LET new_state == clone(state)
        color == new_state.current_player
        moved == IF move = NoMove
                 THEN pass_turn(new_state)
                 ELSE place_piece(new_state, move)
    IN  [moved EXCEPT !.current_player = next_player(color)]

\* rules.py:167-182
\* Mutant of is_terminal: one empty inventory already ends the game.
is_terminal_any_empty(state) ==
    \/ state.consecutive_passes >= 4
    \/ \E color \in 0..3 : Cardinality(state.pieces_remaining[color]) = 0

\* Mutant of is_terminal: the game ends on the fifth consecutive pass.
is_terminal_after_five(state) ==
    \/ state.consecutive_passes > 4
    \/ \A color \in 0..3 : Cardinality(state.pieces_remaining[color]) = 0

\* rules.py:167-182
is_terminal(state) ==
    \/ state.consecutive_passes >= 4
    \/ \A color \in 0..3 : Cardinality(state.pieces_remaining[color]) = 0

\* ------------------------------------------------------------------------
\* scoring.py
\* ------------------------------------------------------------------------

RECURSIVE leftover_squares(_)
\* scoring.py:32-34: the inner loop, adding len(ALL_SHAPES[pid]) per piece.
leftover_squares(pids) ==
    IF pids = {}
    THEN 0
    ELSE LET pid == CHOOSE p \in pids : TRUE
         IN  Cardinality(ALL_SHAPES[pid]) + leftover_squares(pids \ {pid})

\* Mutant of compute_final_scores: the "advanced scoring" of the docstring,
\* fifteen points for a colour that placed all its pieces.
compute_final_scores_with_bonus(state) ==
    [color \in 0..3 |->
        IF state.pieces_remaining[color] = {}
        THEN 15
        ELSE 0 - leftover_squares(state.pieces_remaining[color])]

\* scoring.py:11-36
compute_final_scores(state) ==
    [color \in 0..3 |-> 0 - leftover_squares(state.pieces_remaining[color])]

\* ------------------------------------------------------------------------
\* The same objects with their identity.  A Python BoardState refers to a
\* list of row lists, a list of sets and a list of counters; clone and
\* apply_move allocate and then write in place.  The heap is the sequence
\* of objects allocated so far, an address is an index into it, and the
\* object an operation creates is the last one it allocates.
\* ------------------------------------------------------------------------

\* Objects one BoardState consists of: BOARD_SIZE rows, the grid, one set
\* per colour, the list of sets, the counters, the BoardState itself.
ObjectsPerState == BOARD_SIZE + NUM_PLAYERS + 4

\* board.py:25-40: BoardState.__init__, allocating.
HeapBoardState(h) ==
    LET base == Len(h)
        grid == base + BOARD_SIZE + 1
        sets == base + BOARD_SIZE + 2
        prem == sets + NUM_PLAYERS
    IN  h \o [i \in 1..ObjectsPerState |->
                IF i <= BOARD_SIZE THEN [c \in Rows |-> None]
                ELSE IF base + i = grid THEN [r \in Rows |-> base + 1 + r]
                ELSE IF base + i < prem THEN PieceIds
                ELSE IF base + i = prem THEN [color \in Colors |-> sets + color]
                ELSE IF base + i = prem + 1 THEN [color \in Colors |-> 0]
                ELSE [board_grid         |-> grid,
                      pieces_remaining   |-> prem,
                      current_player     |-> 0,
                      moves_made         |-> prem + 1,
                      consecutive_passes |-> 0]]

\* Mutant of HeapClone: the list of sets is copied, the sets are not
\* (list(self.pieces_remaining) instead of [s.copy() for s in ...]).
HeapClone_shared_sets(h, self) ==
    LET base == Len(h)
        src  == h[self]
        grid == base + BOARD_SIZE + 1
        sets == base + BOARD_SIZE + 2
        prem == sets + NUM_PLAYERS
    IN  h \o [i \in 1..ObjectsPerState |->
                IF i <= BOARD_SIZE THEN [c \in Rows |-> h[h[src.board_grid][i - 1]][c]]
                ELSE IF base + i = grid THEN [r \in Rows |-> base + 1 + r]
                ELSE IF base + i < prem THEN {}
                ELSE IF base + i = prem
                     THEN [color \in Colors |-> h[src.pieces_remaining][color]]
                ELSE IF base + i = prem + 1
                     THEN [color \in Colors |-> h[src.moves_made][color]]
                ELSE [board_grid         |-> grid,
                      pieces_remaining   |-> prem,
                      current_player     |-> src.current_player,
                      moves_made         |-> prem + 1,
                      consecutive_passes |-> src.consecutive_passes]]

\* board.py:42-52: BoardState.clone, allocating: deepcopy gives a new grid
\* of new rows, s.copy() a new set per colour in a new list, [:] a new list
\* of counters.  (The objects that BoardState() creates at line 46 are
\* dropped when lines 47-51 overwrite the fields; they are not allocated
\* here.)
HeapClone(h, self) ==
    LET base == Len(h)
        src  == h[self]
        grid == base + BOARD_SIZE + 1
        sets == base + BOARD_SIZE + 2
        prem == sets + NUM_PLAYERS
    IN  h \o [i \in 1..ObjectsPerState |->
                IF i <= BOARD_SIZE THEN [c \in Rows |-> h[h[src.board_grid][i - 1]][c]]
                ELSE IF base + i = grid THEN [r \in Rows |-> base + 1 + r]
                ELSE IF base + i < prem
                     THEN h[h[src.pieces_remaining][base + i - sets]]
                ELSE IF base + i = prem THEN [color \in Colors |-> sets + color]
                ELSE IF base + i = prem + 1
                     THEN [color \in Colors |-> h[src.moves_made][color]]
                ELSE [board_grid         |-> grid,
                      pieces_remaining   |-> prem,
                      current_player     |-> src.current_player,
                      moves_made         |-> prem + 1,
                      consecutive_passes |-> src.consecutive_passes]]

\* rules.py:150-159 on the heap: remove from the set object, write the row
\* objects, add to the counter object, assign the field.
HeapPlacePiece(h, n, move) ==
    LET color   == h[n].current_player
        grid    == h[h[n].board_grid]
        the_set == h[h[n].pieces_remaining][color]
        counts  == h[n].moves_made
        squares == written_squares(move)
    IN  [a \in 1..Len(h) |->
            IF a = n THEN [h[a] EXCEPT !.consecutive_passes = 0]
            ELSE IF a = the_set THEN h[a] \ {move[1]}
            ELSE IF a = counts THEN [h[a] EXCEPT ![color] = @ + 1]
            ELSE IF \E r \in Rows : grid[r] = a
                 THEN [c \in Rows |->
                         IF \E r \in Rows : grid[r] = a /\ <<r, c>> \in squares
                         THEN color ELSE h[a][c]]
            ELSE h[a]]

\* rules.py:137-164 on the heap; the returned BoardState is the last object.
HeapApplyMove(h, self, move) ==
    LET h1    == HeapClone(h, self)
        n     == Len(h1)
        color == h1[n].current_player
        h2    == IF move = NoMove
                 THEN [h1 EXCEPT ![n].consecutive_passes = @ + 1]
                 ELSE HeapPlacePiece(h1, n, move)
    IN  [h2 EXCEPT ![n].current_player = (color + 1) % 4]

\* What a holder of the BoardState at address a reads through it.
Deref(h, a) ==
    [board_grid         |-> [r \in Rows |-> [c \in Rows |-> h[h[h[a].board_grid][r]][c]]],
     pieces_remaining   |-> [color \in Colors |-> h[h[h[a].pieces_remaining][color]]],
     current_player     |-> h[a].current_player,
     moves_made         |-> [color \in Colors |-> h[h[a].moves_made][color]],
     consecutive_passes |-> h[a].consecutive_passes]

\* The mutable objects reachable from the BoardState at address a.
Parts(h, a) ==
    {a, h[a].board_grid, h[a].pieces_remaining, h[a].moves_made}
        \cup {h[h[a].board_grid][r] : r \in Rows}
        \cup {h[h[a].pieces_remaining][color] : color \in Colors}

\* ------------------------------------------------------------------------
\* policy_wrapper.py and mcts.py.  Numbers that the program keeps as floats
\* are kept exactly: a probability is a pair <<numerator, denominator>>, a
\* value is a whole number of hundredths (a terminal value is a score
\* divided by 100.0, mcts.py:169).  The network is a parameter "model" of
\* every function that calls it: a record of the policy logits and the
\* value it answers with.  A logit is 0 or -1000; after the maximum is
\* subtracted, exp gives 1.0 for the largest logits of the mask and
\* underflows to exactly 0.0 for every other entry (policy_wrapper.py:86).
\* ------------------------------------------------------------------------

\* policy_wrapper.py:71; the key 'pass' of the returned dictionary and the
\* key ('pass', 0) of a node's children are written with this index.
pass_index == 21

RECURSIVE sum_over(_, _)
\* policy_wrapper.py:87: np.sum(exps).
sum_over(f, S) ==
    IF S = {}
    THEN 0
    ELSE LET i == CHOOSE j \in S : TRUE
         IN  f[i] + sum_over(f, S \ {i})

\* Mutant of decode_policy: the softmax runs over all 22 logits, and the
\* entries of the legal ids and of pass are copied out of it.
decode_policy_unmasked(policy_logits, legal_piece_ids) ==
    LET mask == legal_piece_ids \cup {pass_index}
        top  == SetMax({policy_logits[i] : i \in 0..pass_index})
        exps == [i \in 0..pass_index |->
                    IF policy_logits[i] = top THEN 1 ELSE 0]
        total == sum_over(exps, 0..pass_index)
    IN  IF Cardinality(legal_piece_ids) = 0
        THEN (pass_index :> <<1, 1>>)
        ELSE [i \in mask |-> <<exps[i], total>>]

\* policy_wrapper.py:48-99 with temperature = 1.0: the dictionary returned,
\* a function from the legal piece ids and pass_index to probabilities.
decode_policy(policy_logits, legal_piece_ids) ==
    LET mask == legal_piece_ids \cup {pass_index}
        top  == SetMax({policy_logits[i] : i \in mask})
        exps == [i \in 0..pass_index |->
                    IF i \in mask /\ policy_logits[i] = top THEN 1 ELSE 0]
        total == sum_over(exps, 0..pass_index)
    IN  IF Cardinality(legal_piece_ids) = 0
        THEN (pass_index :> <<1, 1>>)
        ELSE [i \in mask |-> <<exps[i], total>>]

\* mcts.py:24-31; parent 0 is None, last_action_key <<>> is the attribute
\* not set (mcts.py:135, 145 set it on children only).  A dictionary is the
\* sequence of its items in insertion order.
MCTSNode(state, parent) ==
    [state           |-> state,
     parent          |-> parent,
     children        |-> <<>>,
     visit_count     |-> 0,
     total_value     |-> 0,
     priors          |-> <<>>,
     expanded        |-> FALSE,
     last_action_key |-> <<>>]

\* dict.get(key, 0) on a dictionary of probabilities.
dict_get(items, key) ==
    IF \E i \in 1..Len(items) : items[i][1] = key
    THEN items[CHOOSE i \in 1..Len(items) : items[i][1] = key][2]
    ELSE <<0, 1>>

RECURSIVE list_of(_)
\* pieces.py:73-75: the list made by iterating a Python set, in the order
\* the set yields its elements: one fixed order, not specified by the
\* language.
list_of(S) ==
    IF S = {}
    THEN <<>>
    ELSE LET x == CHOOSE y \in S : TRUE
         IN  <<x>> \o list_of(S \ {x})

\* pieces.py:49-76 as the list it returns, per piece id.
ORIENTATION_LISTS == [p \in PieceIds |-> list_of(ORIENTATIONS[p])]

\* rules.py:108-133: position of a move in the list get_legal_moves returns
\* among the moves of the same piece: orientations in list order, then
\* row_off ascending, then col_off ascending.
orientation_rank(move) ==
    CHOOSE i \in 1..Len(ORIENTATION_LISTS[move[1]]) :
        ORIENTATION_LISTS[move[1]][i] = move[4]

listed_before(m1, m2) ==
    \/ orientation_rank(m1) < orientation_rank(m2)
    \/ /\ orientation_rank(m1) = orientation_rank(m2)
       /\ \/ m1[2] < m2[2]
          \/ m1[2] = m2[2] /\ m1[3] < m2[3]

RECURSIVE listed(_)
listed(moves) ==
    IF moves = {}
    THEN <<>>
    ELSE LET first == CHOOSE m \in moves :
                          \A x \in moves \ {m} : listed_before(m, x)
         IN  <<first>> \o listed(moves \ {first})

\* mcts.py:109-112: moves_by_piece[pid], the legal moves of one piece in
\* the order of the list.
moves_by_piece(legal_moves, pid) ==
    listed({mv \in legal_moves : mv[1] = pid})

RECURSIVE ascending(_)
\* mcts.py:119: iteration over a set of small ints, which CPython yields
\* in ascending order.
ascending(ids) ==
    IF ids = {}
    THEN <<>>
    ELSE <<SetMin(ids)>> \o ascending(ids \ {SetMin(ids)})

\* Mutant of piece_children: every placement gets the whole probability of
\* its piece.
piece_children_unsplit(legal_moves, piece_policy, pid) ==
    LET placements == moves_by_piece(legal_moves, pid)
        pprob == piece_policy[pid]
    IN  [i \in 1..Len(placements) |->
            [action_key |-> <<pid, i - 1>>,
             move       |-> placements[i],
             prior      |-> pprob]]

\* mcts.py:120-137: the children made for one piece: action key, move and
\* prior (the piece's probability divided by the number of placements).
piece_children(legal_moves, piece_policy, pid) ==
    LET placements == moves_by_piece(legal_moves, pid)
        pprob == piece_policy[pid]
    IN  [i \in 1..Len(placements) |->
            [action_key |-> <<pid, i - 1>>,
             move       |-> placements[i],
             prior      |-> <<pprob[1], pprob[2] * Len(placements)>>]]

RECURSIVE placement_children(_, _, _)
\* mcts.py:119-137: the loop over legal_piece_ids.
placement_children(legal_moves, piece_policy, pids) ==
    IF pids = <<>>
    THEN <<>>
    ELSE piece_children(legal_moves, piece_policy, Head(pids))
            \o placement_children(legal_moves, piece_policy, Tail(pids))

\* mcts.py:140-147: the pass child, made when pass_prob > 0.0.
pass_child(piece_policy) ==
    IF piece_policy[pass_index][1] > 0
    THEN << [action_key |-> <<pass_index, 0>>,
             move       |-> NoMove,
             prior      |-> piece_policy[pass_index]] >>
    ELSE <<>>

\* Mutant of expand_node: the list of legal moves is the one of the first
\* node's state, not asked again for the node being expanded.
expand_node_stale_moves(t, node, model) ==
    LET state == t[node].state
        legal_moves == get_legal_moves(t[1].state)
        legal_piece_ids == state.pieces_remaining[state.current_player]
        piece_policy == decode_policy(model.policy_logits, legal_piece_ids)
        made == placement_children(legal_moves, piece_policy,
                                   ascending(legal_piece_ids))
                   \o pass_child(piece_policy)
        new_nodes == [i \in 1..Len(made) |->
                        [MCTSNode(apply_move(state, made[i].move), node)
                            EXCEPT !.last_action_key = made[i].action_key]]
    IN  IF is_terminal(state)
        THEN [t EXCEPT ![node].expanded = TRUE]
        ELSE [t EXCEPT
                 ![node].children =
                     [i \in 1..Len(made) |-> <<made[i].action_key, Len(t) + i>>],
                 ![node].priors =
                     [i \in 1..Len(made) |-> <<made[i].action_key, made[i].prior>>],
                 ![node].expanded = TRUE] \o new_nodes

\* mcts.py:78-150.  t is the sequence of all nodes made so far, a node is
\* its index.
expand_node(t, node, model) ==
    LET state == t[node].state
        legal_moves == get_legal_moves(state)
        legal_piece_ids == state.pieces_remaining[state.current_player]
        piece_policy == decode_policy(model.policy_logits, legal_piece_ids)
        made == placement_children(legal_moves, piece_policy,
                                   ascending(legal_piece_ids))
                   \o pass_child(piece_policy)
        new_nodes == [i \in 1..Len(made) |->
                        [MCTSNode(apply_move(state, made[i].move), node)
                            EXCEPT !.last_action_key = made[i].action_key]]
    IN  IF is_terminal(state)
        THEN [t EXCEPT ![node].expanded = TRUE]
        ELSE [t EXCEPT
                 ![node].children =
                     [i \in 1..Len(made) |-> <<made[i].action_key, Len(t) + i>>],
                 ![node].priors =
                     [i \in 1..Len(made) |-> <<made[i].action_key, made[i].prior>>],
                 ![node].expanded = TRUE] \o new_nodes

\* mcts.py:200-204
stt_final_scores(st) == compute_final_scores(st)

\* Mutant of evaluate_node: the value network is asked about every node.
evaluate_node_by_network(t, node, model) == model.value

\* mcts.py:152-178, in hundredths.
evaluate_node(t, node, model) ==
    LET st == t[node].state
    IN  IF is_terminal(st)
        THEN stt_final_scores(st)[st.current_player]
        ELSE model.value

RECURSIVE path_to_root(_, _)
\* mcts.py:194-198: the nodes the loop visits.
path_to_root(t, cur) ==
    IF cur = 0 THEN {} ELSE {cur} \cup path_to_root(t, t[cur].parent)

\* Mutant of backup_value: the loop stops after the node itself.
backup_value_leaf_only(t, node, value) ==
    [i \in 1..Len(t) |->
        IF i = node
        THEN [t[i] EXCEPT !.visit_count = @ + 1, !.total_value = @ + value]
        ELSE t[i]]

\* Mutant of backup_value: the ancestors of the node get the value with
\* its sign changed.
backup_value_sign_changed(t, node, value) ==
    [i \in 1..Len(t) |->
        IF i = node
        THEN [t[i] EXCEPT !.visit_count = @ + 1, !.total_value = @ + value]
        ELSE IF i \in path_to_root(t, node)
        THEN [t[i] EXCEPT !.visit_count = @ + 1, !.total_value = @ - value]
        ELSE t[i]]

\* mcts.py:180-198
backup_value(t, node, value) ==
    [i \in 1..Len(t) |->
        IF i \in path_to_root(t, node)
        THEN [t[i] EXCEPT !.visit_count = @ + 1, !.total_value = @ + value]
        ELSE t[i]]

\* mcts.py:46: what the score of a visited child is computed from: its
\* visit count, its value sum, and the prior that the expression
\* child.priors.get(child.last_action_key, 0) reads, from the child's own
\* priors dictionary.
ucb_operands(child) ==
    <<child.visit_count, child.total_value,
      dict_get(child.priors, child.last_action_key)>>

\* Mutant of ucb_score_greater: a child without visits scores below every
\* visited one.
ucb_score_greater_visited_first(parent, a, b) ==
    IF a.visit_count = 0 THEN FALSE
    ELSE IF b.visit_count = 0 THEN TRUE
    ELSE LET pa == dict_get(a.priors, a.last_action_key)
             pb == dict_get(b.priors, b.last_action_key)
             qd == 100 * a.visit_count * b.visit_count
             ud == pa[2] * (1 + a.visit_count) * pb[2] * (1 + b.visit_count)
             qn == a.total_value * b.visit_count - b.total_value * a.visit_count
             un == pb[1] * pa[2] * (1 + a.visit_count)
                      - pa[1] * pb[2] * (1 + b.visit_count)
             x  == qn * ud
             y  == un * qd
             N  == parent.visit_count
         IN  IF x > 0 /\ y <= 0 THEN TRUE
             ELSE IF x <= 0 /\ y >= 0 THEN FALSE
             ELSE IF x > 0 THEN x * x > y * y * N
             ELSE x * x < y * y * N

\* mcts.py:39-46, 65: ucb_score(parent, a) > ucb_score(parent, b) with
\* c_puct = 1.0.  Unvisited children score infinity.  For visited ones
\* Qa + Ua * sqrt(N) > Qb + Ub * sqrt(N) is decided in whole numbers:
\* x > y * sqrt(N) with x = (Qa - Qb) and y = (Ub - Ua) over a common
\* positive denominator.
ucb_score_greater(parent, a, b) ==
    IF b.visit_count = 0 THEN FALSE
    ELSE IF a.visit_count = 0 THEN TRUE
    ELSE LET pa == dict_get(a.priors, a.last_action_key)
             pb == dict_get(b.priors, b.last_action_key)
             qd == 100 * a.visit_count * b.visit_count
             ud == pa[2] * (1 + a.visit_count) * pb[2] * (1 + b.visit_count)
             qn == a.total_value * b.visit_count - b.total_value * a.visit_count
             un == pb[1] * pa[2] * (1 + a.visit_count)
                      - pa[1] * pb[2] * (1 + b.visit_count)
             x  == qn * ud
             y  == un * qd
             N  == parent.visit_count
         IN  IF x > 0 /\ y <= 0 THEN TRUE
             ELSE IF x <= 0 /\ y >= 0 THEN FALSE
             ELSE IF x > 0 THEN x * x > y * y * N
             ELSE x * x < y * y * N

\* mcts.py:61-69: the children the loop can leave in best_child.  The loop
\* keeps the first child whose score no other child exceeds.  Two scores
\* that are equal as exact numbers but computed from different operands
\* may differ in their last bit as floats, so a later child with such a
\* score may be kept instead; scores computed from the same operands are
\* the same float and the earlier child stays.
best_children(t, node) ==
    LET items == t[node].children
        top(i) == \A j \in 1..Len(items) :
                     ~ucb_score_greater(t[node], t[items[j][2]], t[items[i][2]])
    IN  { items[i][2] : i \in
            { k \in 1..Len(items) :
                /\ top(k)
                /\ \A j \in 1..(k - 1) :
                      top(j) => ucb_operands(t[items[j][2]])
                                   # ucb_operands(t[items[k][2]]) } }

\* ------------------------------------------------------------------------
\* The play.  test_random_script.py:22-37 (and the self-play drivers) hold a
\* current BoardState and replace it by apply_move's result while it is not
\* terminal; the MCTS drivers may pass although placements exist.  At every
\* position a caller may also ask check_legal_move about a candidate or
\* get_legal_moves for the list, and ask the same again.  Neither function
\* assigns to its argument (rules.py:21-134 hold no assignment to a field
\* or element of state), so the play continues from the position itself.
\* ------------------------------------------------------------------------

VARIABLES
    state,      \* the driver's current BoardState
    history,    \* the moves given to apply_move so far, oldest first
    lastOp,     \* the call made by the last step
    lastMove,   \* the move argument of that call (NoMove if none)
    answer,     \* what check_legal_move returned, when lastOp = "check"
    legal,      \* what get_legal_moves returned, when lastOp = "enumerate"
    heap,       \* the objects allocated so far (plays that track identity)
    held,       \* address of each BoardState created |-> what it read as then
    lastInput,  \* address of the BoardState given to the last apply_move
    scores,     \* what compute_final_scores returned, when lastOp = "scores"
    piece_id,   \* the id whose shape is looked up in ALL_SHAPES
    base_shape, \* the piece shape given to get_all_orientations
                \* (shape, rules.py:108)
    orients,    \* what get_all_orientations returned for it
    image,      \* what rotate_90 or flip_horizontal returned last
    tree,       \* every MCTSNode made so far, in the order of creation
    root,       \* the node given to mcts_search
    model,      \* the network given to mcts_search
    n_simulations,  \* the number of simulations asked for
    simulations,    \* iterations of mcts_search's loop started so far
    pc,         \* where mcts_search is: the phase to run next
    node,       \* mcts_search's local variable node
    value,      \* mcts_search's local variable value, in hundredths
    legal_ids,  \* the set legal_piece_ids given to decode_policy
    out_dict,   \* the dictionary decode_policy returned
    trajectory, \* the policy targets run_self_play_game has appended
    buffer,     \* ReplayBuffer.buffer
    max_size,   \* ReplayBuffer.max_size
    pushed      \* every sample given to ReplayBuffer.push so far, in order

vars ==
    <<state, history, lastOp, lastMove, answer, legal, heap, held, lastInput,
      scores, piece_id, base_shape, orients, image,
      tree, root, model, n_simulations, simulations, pc, node, value,
      legal_ids, out_dict, trajectory, buffer, max_size, pushed>>

values == <<state, history, answer, legal>>

objects == <<heap, held, lastInput>>

geometry == <<piece_id, base_shape, orients, image>>

search == <<tree, root, model, n_simulations, simulations, pc, node, value>>

policy == <<legal_ids, out_dict>>

training == <<trajectory, buffer, max_size, pushed>>

\* The variables that no step of a play writes.
aside == <<scores, policy, training, geometry, search>>

\* No search has been started.
SearchIdle ==
    /\ tree = <<>>
    /\ root = 0
    /\ model = <<>>
    /\ n_simulations = 0
    /\ simulations = 0
    /\ pc = "none"
    /\ node = 0
    /\ value = 0

\* No self-play game is running and no ReplayBuffer has been made.
TrainingIdle ==
    /\ trajectory = <<>>
    /\ buffer = <<>>
    /\ max_size = 0
    /\ pushed = <<>>

\* decode_policy has not been called on its own.
PolicyIdle ==
    /\ legal_ids = {}
    /\ out_dict = <<>>

\* Their values while nothing has been computed.
AsideIdle ==
    /\ scores = <<>>
    /\ PolicyIdle
    /\ TrainingIdle
    /\ piece_id = None
    /\ base_shape = {}
    /\ orients = {}
    /\ image = {}
    /\ SearchIdle

\* No BoardState object has been allocated.
ObjectsIdle ==
    /\ heap = <<>>
    /\ held = <<>>
    /\ lastInput = 0

ply == Len(history)

AtPosition == lastOp \in {"init", "place", "pass"}

\* The candidates a caller asks about: any held-at-start piece in any of
\* its orientations, at offsets that reach one step off the board upward
\* and leftward (downward and rightward the shape itself leaves the board).
CandidateOffsets == (-1)..(BOARD_SIZE - 1)

CandidateMoves ==
    UNION { { <<p, ro, co, o>> : ro \in CandidateOffsets, co \in CandidateOffsets,
                                  o \in ORIENTATIONS[p] } : p \in PieceIds }

Init ==
    /\ state = BoardState
    /\ history = <<>>
    /\ lastOp = "init"
    /\ lastMove = NoMove
    /\ answer = FALSE
    /\ legal = {}
    /\ ObjectsIdle
    /\ AsideIdle

\* test_random_script.py:25, 31-33: a move chosen from get_legal_moves(state).
Place ==
    /\ AtPosition
    /\ ~is_terminal(state)
    /\ ply < MaxPly
    /\ \E mv \in get_legal_moves(state) :
          /\ state' = apply_move(state, mv)
          /\ history' = Append(history, mv)
          /\ lastOp' = "place"
          /\ lastMove' = mv
          /\ answer' = FALSE
          /\ legal' = {}
          /\ UNCHANGED <<objects, aside>>

\* test_random_script.py:27-29, self_play.py:106: apply_move(state, None).
Pass ==
    /\ AtPosition
    /\ ~is_terminal(state)
    /\ ply < MaxPly
    /\ state' = apply_move(state, NoMove)
    /\ history' = Append(history, NoMove)
    /\ lastOp' = "pass"
    /\ lastMove' = NoMove
    /\ answer' = FALSE
    /\ legal' = {}
    /\ UNCHANGED <<objects, aside>>

\* Mutant of Check: check_legal_move tries the candidate on the board it
\* was given and leaves it there.
Check_marking_board ==
    /\ AtPosition
    /\ \E mv \in CandidateMoves :
          /\ lastMove' = mv
          /\ answer' = check_legal_move(state, mv)
          /\ state' = [state EXCEPT
                          !.board_grid = place_piece(state, mv).board_grid]
    /\ lastOp' = "check"
    /\ UNCHANGED <<history, legal, objects, aside>>

\* rules.py:21: a call check_legal_move(state, mv).
Check ==
    /\ AtPosition
    /\ \E mv \in CandidateMoves :
          /\ lastMove' = mv
          /\ answer' = check_legal_move(state, mv)
    /\ lastOp' = "check"
    /\ UNCHANGED <<state, history, legal, objects, aside>>

\* rules.py:97: a call get_legal_moves(state).
Enumerate ==
    /\ AtPosition
    /\ legal' = get_legal_moves(state)
    /\ lastOp' = "enumerate"
    /\ UNCHANGED <<state, history, lastMove, answer, objects, aside>>

\* A second call check_legal_move(state, mv) with the arguments of the
\* first.
CheckAgain ==
    /\ lastOp = "check"
    /\ answer' = check_legal_move(state, lastMove)
    /\ UNCHANGED <<state, history, lastOp, lastMove, legal, objects, aside>>

\* A second call get_legal_moves(state) with the argument of the first.
EnumerateAgain ==
    /\ lastOp = "enumerate"
    /\ legal' = get_legal_moves(state)
    /\ UNCHANGED <<state, history, lastOp, lastMove, answer, objects, aside>>

Next == Place \/ Pass \/ Check \/ Enumerate \/ CheckAgain \/ EnumerateAgain

Spec == Init /\ [][Next]_vars

\* ------------------------------------------------------------------------
\* Plays that track object identity.  Callers keep the BoardStates they were
\* given (test_random_script.py:36 keeps a timeline, every MCTSNode keeps
\* its state, mcts.py:25) and call apply_move on any of them, in any order
\* (mcts.py:131, 143 expand one node into many children).
\* ------------------------------------------------------------------------

HeldStates == DOMAIN held

InitObjects ==
    /\ heap = HeapBoardState(<<>>)
    /\ held = (ObjectsPerState :> Deref(HeapBoardState(<<>>), ObjectsPerState))
    /\ lastInput = 0
    /\ lastOp = "init"
    /\ lastMove = NoMove
    /\ state = BoardState
    /\ history = <<>>
    /\ answer = FALSE
    /\ legal = {}
    /\ AsideIdle

\* The effect of the call apply_move(s, mv) on the heap.
Applied(s, mv) ==
    /\ heap' = HeapApplyMove(heap, s, mv)
    /\ held' = held @@ (Len(heap') :> Deref(heap', Len(heap')))
    /\ lastInput' = s
    /\ lastMove' = mv
    /\ UNCHANGED <<values, aside>>

\* mcts.py:130-131: apply_move(state, mv) for a move of get_legal_moves.
PlaceOnHeld ==
    /\ AtPosition
    /\ Cardinality(HeldStates) < MaxStates
    /\ \E s \in HeldStates :
          /\ ~is_terminal(Deref(heap, s))
          /\ \E mv \in get_legal_moves(Deref(heap, s)) : Applied(s, mv)
    /\ lastOp' = "place"

\* mcts.py:142-143: apply_move(state, None).
PassOnHeld ==
    /\ AtPosition
    /\ Cardinality(HeldStates) < MaxStates
    /\ \E s \in HeldStates :
          /\ ~is_terminal(Deref(heap, s))
          /\ Applied(s, NoMove)
    /\ lastOp' = "pass"

\* rules.py:137-164: a call apply_move(s, mv) with a placement that was not
\* taken from get_legal_moves.  The clone is allocated first (line 142);
\* when the call raises, the clone is dropped and nothing is returned.
\* (Before an IndexError the loop may have written some in-range cells of
\* the clone; the dropped clone is left as allocated here.)  The model
\* makes one such call per play and does not continue from it.  The
\* placements tried are the candidates above and the same for one piece id
\* that no colour holds.
UncheckedMoves ==
    CandidateMoves \cup
        { <<NUM_PIECE_IDS, ro, co, o>> :
            ro \in CandidateOffsets, co \in CandidateOffsets,
            o \in get_all_orientations(ALL_SHAPES[NUM_PIECE_IDS]) }

ApplyUnchecked ==
    /\ AtPosition
    /\ Cardinality(HeldStates) <= MaxStatesUnchecked
    /\ \E s \in HeldStates :
          \E mv \in UncheckedMoves :
             LET raises == apply_move_raises(Deref(heap, s), mv)
             IN  /\ lastInput' = s
                 /\ lastMove' = mv
                 /\ IF raises = "none"
                    THEN /\ heap' = HeapApplyMove(heap, s, mv)
                         /\ held' = held @@ (Len(heap') :> Deref(heap', Len(heap')))
                         /\ lastOp' = "apply"
                    ELSE /\ heap' = HeapClone(heap, s)
                         /\ held' = held
                         /\ lastOp' = raises
    /\ UNCHANGED <<values, aside>>

NextObjects == PlaceOnHeld \/ PassOnHeld \/ ApplyUnchecked

SpecObjects == InitObjects /\ [][NextObjects]_vars

\* ------------------------------------------------------------------------
\* Late positions.  is_terminal and compute_final_scores read two fields of
\* the BoardState they are given, pieces_remaining and consecutive_passes
\* (rules.py:174-182, scoring.py:31-35); the callers give them the position
\* of a game that may have run for up to 84 placements
\* (test_random_script.py:22, 43; mcts.py:86, 160, 204).  The positions below
\* are drawn by these two fields: every colour holds a subset of the first
\* NumLateIds ids and has placed the rest of its 21 pieces, and the last
\* 0..4 moves were passes.  A game whose last piece has just been placed
\* has no pass after it, the drivers stop there.  The board is read by
\* neither function and is left as constructed.
\* ------------------------------------------------------------------------

LateInventories == [Colors -> SUBSET (0..(NumLateIds - 1))]

LatePasses(inv) ==
    { n \in 0..4 : n = 0 \/ \E color \in Colors : inv[color] # {} }

LatePosition(inv, cp) ==
    [BoardState EXCEPT
        !.pieces_remaining = inv,
        !.moves_made = [color \in Colors |-> 21 - Cardinality(inv[color])],
        !.consecutive_passes = cp]

InitLate ==
    /\ \E inv \in LateInventories :
          \E cp \in LatePasses(inv) : state = LatePosition(inv, cp)
    /\ history = <<>>
    /\ lastOp = "init"
    /\ lastMove = NoMove
    /\ answer = FALSE
    /\ legal = {}
    /\ ObjectsIdle
    /\ AsideIdle

\* test_random_script.py:22, mcts.py:86: a call is_terminal(state).
CallIsTerminal ==
    /\ lastOp = "init"
    /\ answer' = is_terminal(state)
    /\ lastOp' = "is_terminal"
    /\ UNCHANGED <<state, history, lastMove, legal, objects, aside>>

\* test_random_script.py:43, mcts.py:204: a call compute_final_scores(state).
CallScores ==
    /\ lastOp = "init"
    /\ scores' = compute_final_scores(state)
    /\ lastOp' = "scores"
    /\ UNCHANGED <<state, history, lastMove, answer, legal, objects, policy, training, geometry, search>>

NextLate == CallIsTerminal \/ CallScores

SpecLate == InitLate /\ [][NextLate]_vars

\* ------------------------------------------------------------------------
\* The shape table.  rules.py:109-111 looks up ALL_SHAPES[piece_id] for a
\* piece id of range(21) and gives the shape to get_all_orientations;
\* rotate_90 and flip_horizontal are then applied to an orientation it
\* returned.
\* ------------------------------------------------------------------------

InitShapes ==
    /\ piece_id \in DOMAIN ALL_SHAPES
    /\ base_shape = ALL_SHAPES[piece_id]
    /\ orients = {}
    /\ image = {}
    /\ scores = <<>>
    /\ PolicyIdle
    /\ TrainingIdle
    /\ state = BoardState
    /\ history = <<>>
    /\ lastOp = "init"
    /\ lastMove = NoMove
    /\ answer = FALSE
    /\ legal = {}
    /\ ObjectsIdle
    /\ SearchIdle

\* pieces.py:49: a call get_all_orientations(ALL_SHAPES[piece_id]).
CallOrientations ==
    /\ lastOp = "init"
    /\ orients' = get_all_orientations(base_shape)
    /\ lastOp' = "orientations"
    /\ UNCHANGED <<values, lastMove, objects, scores, policy, training, piece_id,
                 base_shape, image, search>>

\* pieces.py:32: a call rotate_90(o) for a returned orientation o.
CallRotate ==
    /\ lastOp = "orientations"
    /\ \E o \in orients : image' = rotate_90(o)
    /\ lastOp' = "rotate_90"
    /\ UNCHANGED <<values, lastMove, objects, scores, policy, training, piece_id,
                 base_shape, orients, search>>

\* pieces.py:41: a call flip_horizontal(o) for a returned orientation o.
CallFlip ==
    /\ lastOp = "orientations"
    /\ \E o \in orients : image' = flip_horizontal(o)
    /\ lastOp' = "flip_horizontal"
    /\ UNCHANGED <<values, lastMove, objects, scores, policy, training, piece_id,
                 base_shape, orients, search>>

NextShapes == CallOrientations \/ CallRotate \/ CallFlip

SpecShapes == InitShapes /\ [][NextShapes]_vars

\* ------------------------------------------------------------------------
\* The search.  evaluator.py:28-29 and self_play.py:30, 35, 114 make a
\* fresh MCTSNode for the position of the game and give it to mcts_search
\* with the network and a number of simulations.  mcts_search (mcts.py:
\* 48-76) is one loop; a step of the model is one iteration of the
\* selection loop or one of the three calls that follow it.
\* ------------------------------------------------------------------------

RECURSIVE positions_after(_)
\* The positions a game can be in after at most k calls of apply_move.
positions_after(k) ==
    IF k = 0
    THEN {BoardState}
    ELSE LET before == positions_after(k - 1)
         IN  before \cup
             UNION { { apply_move(st, mv) : mv \in get_legal_moves(st) \cup {NoMove} } :
                     st \in { p \in before : ~is_terminal(p) } }

RECURSIVE passed(_, _)
\* The position after j further passes (self_play.py and evaluator.py
\* play the pass child when the search prefers it).
passed(st, j) ==
    IF j = 0 THEN st ELSE apply_move(passed(st, j - 1), NoMove)

\* The drivers search from the position of the game while it is not
\* terminal (evaluator.py:23, 28): here any position after at most
\* MaxRootPly moves followed by up to three passes, and any position after
\* at most MaxBlockedPly moves that leaves the player to move without a
\* legal placement.
RootPositions ==
    { st \in { passed(p, j) : p \in positions_after(MaxRootPly), j \in 0..3 } :
        ~is_terminal(st) }
    \cup { st \in positions_after(MaxBlockedPly) :
              ~is_terminal(st) /\ get_legal_moves(st) = {} }

\* networks.py:63-71: the logits of the 21 pieces and of pass, and the value
\* (tanh, here in hundredths).  The networks tried answer the same for
\* every position: all logits equal, or the logit of pass far below the
\* others, or the logit of piece 0 far above the others; value zero or one
\* half.
Models ==
    { [policy_logits |-> l, value |-> v] :
        l \in { [i \in 0..pass_index |-> 0],
                [i \in 0..pass_index |-> IF i = pass_index THEN 0 - 1000 ELSE 0],
                [i \in 0..pass_index |-> IF i = 0 THEN 0 ELSE 0 - 1000] },
        v \in {0, 50} }

InitSearch ==
    /\ \E st \in RootPositions : tree = <<MCTSNode(st, 0)>>
    /\ root = 1
    /\ model \in Models
    /\ n_simulations \in 1..MaxSims
    /\ simulations = 0
    /\ pc = "idle"
    /\ node = 0
    /\ value = 0
    /\ scores = <<>>
    /\ PolicyIdle
    /\ TrainingIdle
    /\ piece_id = None
    /\ base_shape = {}
    /\ orients = {}
    /\ image = {}
    /\ state = BoardState
    /\ history = <<>>
    /\ lastOp = "init"
    /\ lastMove = NoMove
    /\ answer = FALSE
    /\ legal = {}
    /\ ObjectsIdle

\* Mutant of StartSimulation: the next selection continues from the node
\* the last simulation ended on.
StartSimulation_from_last_node ==
    /\ pc = "idle"
    /\ simulations < n_simulations
    /\ simulations' = simulations + 1
    /\ node' = IF node = 0 THEN root ELSE node
    /\ pc' = "select"
    /\ UNCHANGED <<tree, root, model, n_simulations, value>>
    /\ UNCHANGED <<values, lastOp, lastMove, objects, scores, policy, training, geometry>>

\* mcts.py:56-57: the next iteration of the loop starts at the root.
StartSimulation ==
    /\ pc = "idle"
    /\ simulations < n_simulations
    /\ simulations' = simulations + 1
    /\ node' = root
    /\ pc' = "select"
    /\ UNCHANGED <<tree, root, model, n_simulations, value>>
    /\ UNCHANGED <<values, lastOp, lastMove, objects, scores, policy, training, geometry>>

\* mcts.py:59-69: one iteration of the selection loop.
Descend ==
    /\ pc = "select"
    /\ tree[node].expanded /\ Len(tree[node].children) > 0
    /\ node' \in best_children(tree, node)
    /\ UNCHANGED <<tree, root, model, n_simulations, simulations, pc, value>>
    /\ UNCHANGED <<values, lastOp, lastMove, objects, scores, policy, training, geometry>>

\* mcts.py:59, 71-72: the selection loop ends and the node is expanded
\* unless it is expanded already or terminal.
Expand ==
    /\ pc = "select"
    /\ ~(tree[node].expanded /\ Len(tree[node].children) > 0)
    /\ tree' = IF ~tree[node].expanded /\ ~is_terminal(tree[node].state)
               THEN expand_node(tree, node, model)
               ELSE tree
    /\ pc' = "evaluate"
    /\ UNCHANGED <<root, model, n_simulations, simulations, node, value>>
    /\ UNCHANGED <<values, lastOp, lastMove, objects, scores, policy, training, geometry>>

\* mcts.py:71-72, 95: the call model(board_t, piece_t) in expand_node
\* raises (the network is given by the caller and may fail).  expand_node
\* has assigned nothing yet; the exception leaves mcts_search.
ExpandRaises ==
    /\ pc = "select"
    /\ ~(tree[node].expanded /\ Len(tree[node].children) > 0)
    /\ ~tree[node].expanded /\ ~is_terminal(tree[node].state)
    /\ pc' = "raised"
    /\ UNCHANGED <<tree, root, model, n_simulations, simulations, node, value>>
    /\ UNCHANGED <<values, lastOp, lastMove, objects, scores, policy, training, geometry>>

\* mcts.py:74
Evaluate ==
    /\ pc = "evaluate"
    /\ value' = evaluate_node(tree, node, model)
    /\ pc' = "backup"
    /\ UNCHANGED <<tree, root, model, n_simulations, simulations, node>>
    /\ UNCHANGED <<values, lastOp, lastMove, objects, scores, policy, training, geometry>>

\* mcts.py:74, 177: the call model(board_t, piece_t) in evaluate_node, made
\* for a node that is not terminal, raises.  Nothing in mcts_search or its
\* callers catches it: the exception leaves mcts_search with the tree as
\* the steps before left it.
EvaluateRaises ==
    /\ pc = "evaluate"
    /\ ~is_terminal(tree[node].state)
    /\ pc' = "raised"
    /\ UNCHANGED <<tree, root, model, n_simulations, simulations, node, value>>
    /\ UNCHANGED <<values, lastOp, lastMove, objects, scores, policy, training, geometry>>

\* mcts.py:76
Backup ==
    /\ pc = "backup"
    /\ tree' = backup_value(tree, node, value)
    /\ pc' = "idle"
    /\ UNCHANGED <<root, model, n_simulations, simulations, node, value>>
    /\ UNCHANGED <<values, lastOp, lastMove, objects, scores, policy, training, geometry>>

\* mcts.py:56: the loop has run n_simulations times and mcts_search returns.
Return ==
    /\ pc = "idle"
    /\ simulations = n_simulations
    /\ pc' = "returned"
    /\ UNCHANGED <<tree, root, model, n_simulations, simulations, node, value>>
    /\ UNCHANGED <<values, lastOp, lastMove, objects, scores, policy, training, geometry>>

NextSearch ==
    \/ StartSimulation \/ Descend \/ Expand \/ Evaluate \/ Backup \/ Return
    \/ ExpandRaises \/ EvaluateRaises

SpecSearch == InitSearch /\ [][NextSearch]_vars

\* ------------------------------------------------------------------------
\* The policy decoder on its own.  mcts.py:101-104 gives decode_policy the
\* 22 logits of the network and the set of piece ids the player to move
\* still holds, which may be any set of ids, the empty one included.  A
\* logit is -1000, 0 or 1000, so that every difference of two logits that
\* is not zero underflows in exp.
\* ------------------------------------------------------------------------

LogitValues == {0 - 1000, 0, 1000}

InitPolicy ==
    /\ \E l \in [(0..NumPolicyIds) \cup {pass_index} -> LogitValues] :
          model = [policy_logits |->
                      [i \in 0..pass_index |->
                          IF i \in DOMAIN l THEN l[i] ELSE 0],
                   value |-> 0]
    /\ legal_ids \in SUBSET (0..(NumPolicyIds - 1))
    /\ out_dict = <<>>
    /\ TrainingIdle
    /\ tree = <<>>
    /\ root = 0
    /\ n_simulations = 0
    /\ simulations = 0
    /\ pc = "none"
    /\ node = 0
    /\ value = 0
    /\ scores = <<>>
    /\ piece_id = None
    /\ base_shape = {}
    /\ orients = {}
    /\ image = {}
    /\ state = BoardState
    /\ history = <<>>
    /\ lastOp = "init"
    /\ lastMove = NoMove
    /\ answer = FALSE
    /\ legal = {}
    /\ ObjectsIdle

\* policy_wrapper.py:48: a call decode_policy(policy_logits, legal_ids).
CallDecodePolicy ==
    /\ lastOp = "init"
    /\ out_dict' = decode_policy(model.policy_logits, legal_ids)
    /\ lastOp' = "decode_policy"
    /\ UNCHANGED <<values, lastMove, objects, scores, legal_ids, training, geometry, search>>

NextPolicy == CallDecodePolicy

SpecPolicy == InitPolicy /\ [][NextPolicy]_vars

\* ------------------------------------------------------------------------
\* Vocabulary of the properties, written from the rules of the game and not
\* from the operators above.
\* ------------------------------------------------------------------------

\* The board cells a move covers.
MoveCells(mv) == {<<mv[2] + rc[1], mv[3] + rc[2]>> : rc \in mv[4]}

OnBoard(cell) == cell[1] \in Rows /\ cell[2] \in Rows

\* Owner of an on-board cell (None when empty).
OwnerAt(st, cell) == st.board_grid[cell[1]][cell[2]]

Mover(st) == st.current_player

PieceHeld(st, mv) == mv[1] \in st.pieces_remaining[Mover(st)]

AllOnBoardAndEmpty(st, mv) ==
    \A cell \in MoveCells(mv) : OnBoard(cell) /\ OwnerAt(st, cell) = None

EdgeCells(cell) ==
    {<<cell[1] - 1, cell[2]>>, <<cell[1] + 1, cell[2]>>,
     <<cell[1], cell[2] - 1>>, <<cell[1], cell[2] + 1>>}

DiagonalCells(cell) ==
    {<<cell[1] - 1, cell[2] - 1>>, <<cell[1] - 1, cell[2] + 1>>,
     <<cell[1] + 1, cell[2] - 1>>, <<cell[1] + 1, cell[2] + 1>>}

\* Some covered cell has a 4-neighbour owned by colour c.
TouchesEdge(st, mv, c) ==
    \E cell \in MoveCells(mv) : \E n \in EdgeCells(cell) :
        OnBoard(n) /\ OwnerAt(st, n) = c

\* Some covered cell has a diagonal neighbour owned by colour c.
TouchesDiagonal(st, mv, c) ==
    \E cell \in MoveCells(mv) : \E n \in DiagonalCells(cell) :
        OnBoard(n) /\ OwnerAt(st, n) = c

FirstMove(st) == st.moves_made[Mover(st)] = 0

\* The orientation's bounding box, shifted by the offset, lies on the board.
BoundingBoxOnBoard(mv) ==
    /\ mv[2] >= 0
    /\ mv[3] >= 0
    /\ \A rc \in mv[4] : mv[2] + rc[1] <= BOARD_SIZE - 1 /\ mv[3] + rc[2] <= BOARD_SIZE - 1

\* Candidates against which the result of get_legal_moves is compared: every
\* id up to one the model's colours never hold, every orientation of any of
\* these shapes (also one of another piece), offsets from one step off the
\* board on each side.
EnumIds == 0..NUM_PIECE_IDS

OrientationsOf == [q \in EnumIds |-> get_all_orientations(ALL_SHAPES[q])]

EnumUniverse ==
    {<<pid, ro, co, o>> : pid \in EnumIds, ro \in (-1)..BOARD_SIZE,
                         co \in (-1)..BOARD_SIZE,
                         o \in UNION {OrientationsOf[q] : q \in EnumIds}}

RECURSIVE TrailingPasses(_)
\* Number of passes at the end of a sequence of moves.
TrailingPasses(h) ==
    IF h = <<>> THEN 0
    ELSE IF h[Len(h)] = NoMove THEN 1 + TrailingPasses(SubSeq(h, 1, Len(h) - 1))
    ELSE 0

\* ------------------------------------------------------------------------
\* Properties.
\* ------------------------------------------------------------------------

\* C1: get_legal_moves(state) returns exactly the legal placements of the
\* current player: a candidate (piece_id, row_off, col_off, orientation) is
\* in the result iff the piece is in pieces_remaining[current_player], the
\* orientation is one of get_all_orientations(ALL_SHAPES[piece_id]), the
\* offset keeps the bounding box on the board and check_legal_move accepts
\* it; an empty result means that the current player has no legal placement
\* at any offset.
C1_LegalMovesExact ==
    lastOp = "enumerate" =>
        /\ legal \subseteq EnumUniverse
        /\ \A cand \in EnumUniverse :
              cand \in legal <=>
                  /\ PieceHeld(state, cand)
                  /\ cand[4] \in OrientationsOf[cand[1]]
                  /\ BoundingBoxOnBoard(cand)
                  /\ check_legal_move(state, cand)
        /\ legal = {} =>
              \A cand \in EnumUniverse :
                  ~ /\ PieceHeld(state, cand)
                    /\ cand[4] \in OrientationsOf[cand[1]]
                    /\ check_legal_move(state, cand)

\* C1 witness: get_legal_moves returned nothing for a colour that has moved
\* and still holds a piece (every placement of it is blocked).
C1_Witness ==
    /\ lastOp = "enumerate"
    /\ legal = {}
    /\ state.moves_made[Mover(state)] >= 1
    /\ state.pieces_remaining[Mover(state)] # {}

\* C2: on a colour's first move check_legal_move accepts a placement of a
\* held piece on in-board empty cells iff it covers the colour's corner (no
\* adjacency rule applies), and the four corners are pairwise distinct.
C2_FirstMoveCorner ==
    /\ \A c1 \in Colors : \A c2 \in Colors :
          c1 # c2 => CORNER_POSITIONS[c1] # CORNER_POSITIONS[c2]
    /\ (lastOp = "check" /\ FirstMove(state) /\ PieceHeld(state, lastMove)
            /\ AllOnBoardAndEmpty(state, lastMove))
        => (answer <=> CORNER_POSITIONS[Mover(state)] \in MoveCells(lastMove))

\* C2 witness: colour 1's first move is accepted while other colours
\* already own cells, one of them edge-adjacent to the placement.
C2_Witness ==
    /\ lastOp = "check"
    /\ FirstMove(state)
    /\ Mover(state) = 1
    /\ answer
    /\ TouchesEdge(state, lastMove, 0)

\* C3: after its first move, a colour's placement with a covered cell that
\* has a 4-neighbour of the same colour is rejected, whatever its diagonal
\* contacts.
C3_EdgeContactRejected ==
    (lastOp = "check" /\ ~FirstMove(state)
        /\ TouchesEdge(state, lastMove, Mover(state)))
    => ~answer

\* C3 witness: a rejected placement that is otherwise in order (piece held,
\* cells free, diagonal contact with the own colour) but touches an own
\* cell by an edge.
C3_Witness ==
    /\ lastOp = "check"
    /\ ~FirstMove(state)
    /\ PieceHeld(state, lastMove)
    /\ AllOnBoardAndEmpty(state, lastMove)
    /\ TouchesEdge(state, lastMove, Mover(state))
    /\ TouchesDiagonal(state, lastMove, Mover(state))
    /\ ~answer

\* C4: after its first move, a colour's placement of a held piece on
\* in-board empty cells without edge contact to its own cells is accepted
\* iff some covered cell has a diagonal neighbour of the same colour;
\* contact with other colours plays no part.
C4_DiagonalContactDecides ==
    (lastOp = "check" /\ ~FirstMove(state) /\ PieceHeld(state, lastMove)
        /\ AllOnBoardAndEmpty(state, lastMove)
        /\ ~TouchesEdge(state, lastMove, Mover(state)))
    => (answer <=> TouchesDiagonal(state, lastMove, Mover(state)))

\* C4 witness: an accepted later placement that touches another colour's
\* cell by an edge.
C4_Witness ==
    /\ lastOp = "check"
    /\ ~FirstMove(state)
    /\ answer
    /\ \E c \in Colors \ {Mover(state)} : TouchesEdge(state, lastMove, c)

\* C5: check_legal_move rejects every move whose piece is not held by the
\* current player and every move that covers a cell off the board or a cell
\* owned by any colour, on first and on later moves.
C5_UnavailableOrBlockedRejected ==
    (lastOp = "check"
        /\ \/ ~PieceHeld(state, lastMove)
           \/ \E cell \in MoveCells(lastMove) :
                 ~OnBoard(cell) \/ OwnerAt(state, cell) # None)
    => ~answer

\* C5 witness: a first move that covers the colour's corner with a held
\* piece, all cells on the board, is rejected because a cell is owned.
C5_Witness ==
    /\ lastOp = "check"
    /\ FirstMove(state)
    /\ PieceHeld(state, lastMove)
    /\ \A cell \in MoveCells(lastMove) : OnBoard(cell)
    /\ \E cell \in MoveCells(lastMove) : OwnerAt(state, cell) # None
    /\ CORNER_POSITIONS[Mover(state)] \in MoveCells(lastMove)
    /\ ~answer

\* C6: apply_move never mutates its input: after the call, and after any
\* later apply_move on the returned state or on any other state, every
\* BoardState still reads as it did when it was created, field by field,
\* and no two BoardStates share a mutable object.
C6_InputNeverMutated ==
    /\ \A a \in HeldStates : Deref(heap, a) = held[a]
    /\ \A a \in HeldStates : \A b \in HeldStates :
          a # b => Parts(heap, a) \cap Parts(heap, b) = {}

\* C6 witness: a placement has been applied to the state that the first
\* apply_move returned, after another call had been made in between; the
\* new state differs from its input on the board and in the inventory.
C6_Witness ==
    /\ lastOp = "place"
    /\ Cardinality(HeldStates) = 4
    /\ lastInput = 2 * ObjectsPerState
    /\ held[Len(heap)].board_grid # held[lastInput].board_grid
    /\ held[Len(heap)].pieces_remaining # held[lastInput].pieces_remaining

\* The heap operations and the operators on values describe the same
\* apply_move: the object returned reads as apply_move of what the input
\* read as.
HeapAgreesWithValues ==
    Len(heap) \in HeldStates /\ lastInput # 0 =>
        held[Len(heap)] = apply_move(held[lastInput], lastMove)

\* C7: applying a legal placement by colour c changes exactly the
\* placement's cells, which become c's; removes the piece from
\* pieces_remaining[c]; adds 1 to moves_made[c]; sets consecutive_passes to
\* 0 and current_player to (c+1) mod 4; and leaves every other cell and the
\* other colours' pieces_remaining and moves_made as they were.
C7_PlacementEffect ==
    [][ lastOp' = "place" =>
          LET c == state.current_player
              cells == MoveCells(lastMove')
          IN  /\ \A r \in Rows : \A k \in Rows :
                    IF <<r, k>> \in cells
                    THEN /\ state'.board_grid[r][k] = c
                         /\ state.board_grid[r][k] # c
                    ELSE state'.board_grid[r][k] = state.board_grid[r][k]
              /\ cells \subseteq Rows \X Rows
              /\ lastMove'[1] \in state.pieces_remaining[c]
              /\ state'.pieces_remaining[c] = state.pieces_remaining[c] \ {lastMove'[1]}
              /\ state'.moves_made[c] = state.moves_made[c] + 1
              /\ \A o \in Colors \ {c} :
                    /\ state'.pieces_remaining[o] = state.pieces_remaining[o]
                    /\ state'.moves_made[o] = state.moves_made[o]
              /\ state'.consecutive_passes = 0
              /\ state'.current_player = (c + 1) % 4
      ]_vars

\* C7 witness: a placement has just been applied after a pass, by a colour
\* that had moved before, on a board where other colours own cells.
C7_Witness ==
    /\ lastOp = "place"
    /\ Len(history) >= 2
    /\ history[Len(history) - 1] = NoMove
    /\ state.moves_made[(state.current_player + 3) % 4] = 2
    /\ \E c \in Colors \ {(state.current_player + 3) % 4} : state.moves_made[c] >= 1

\* C8: applying Pass changes only consecutive_passes (plus 1) and
\* current_player (next colour); board, pieces_remaining and moves_made of
\* the result equal those of the input.
C8_PassEffect ==
    [][ lastOp' = "pass" =>
          /\ state'.board_grid = state.board_grid
          /\ state'.pieces_remaining = state.pieces_remaining
          /\ state'.moves_made = state.moves_made
          /\ state'.consecutive_passes = state.consecutive_passes + 1
          /\ state'.current_player = (state.current_player + 1) % 4
          /\ DOMAIN state' = DOMAIN state
      ]_vars

\* C8 witness: a pass has just been applied on a board with owned cells, by
\* a colour that still held pieces.
C8_Witness ==
    /\ lastOp = "pass"
    /\ \E r \in Rows : \E k \in Rows : state.board_grid[r][k] # None
    /\ state.pieces_remaining[(state.current_player + 3) % 4] # {}
    /\ state.consecutive_passes = 1

\* C9: every applied move, placement or pass, hands the turn to colour
\* (current_player + 1) mod 4, so the colour to move at ply k is k mod 4.
C9_TurnOrder ==
    state.current_player = ply % 4

\* C9 witness: after five plies that mix passes and placements the turn is
\* colour 1's again.
C9_Witness ==
    /\ ply = 5
    /\ \E i \in 1..ply : history[i] = NoMove
    /\ \E i \in 1..ply : history[i] # NoMove
    /\ state.current_player = 1

\* C10: consecutive_passes equals the number of passes applied since the
\* most recent placement (or since the start).
C10_ConsecutivePasses ==
    state.consecutive_passes = TrailingPasses(history)

\* C10 witness: two passes after a placement that itself followed a pass.
C10_Witness ==
    /\ lastOp = "pass"
    /\ Len(history) >= 4
    /\ history[Len(history) - 1] = NoMove
    /\ history[Len(history) - 2] # NoMove
    /\ history[Len(history) - 3] = NoMove
    /\ state.consecutive_passes = 2

\* ------------------------------------------------------------------------
\* C11: is_terminal(state) is true exactly when consecutive_passes is at
\* least 4 or all four remaining-piece sets are empty; with fewer than 4
\* consecutive passes and a non-empty inventory the state is not terminal.
\* ------------------------------------------------------------------------
C11_TerminalExactly ==
    lastOp = "is_terminal" =>
        (answer <=> \/ state.consecutive_passes >= 4
                    \/ \A c \in Colors : state.pieces_remaining[c] = {})

\* is_terminal answered "not terminal" one pass before the end, with three
\* colours out of pieces and one still holding some.
C11_Witness ==
    /\ lastOp = "is_terminal"
    /\ ~answer
    /\ state.consecutive_passes = 3
    /\ Cardinality({c \in Colors : state.pieces_remaining[c] = {}}) = 3

\* ------------------------------------------------------------------------
\* C17: compute_final_scores(state)[c] is minus the number of cells of the
\* pieces colour c still holds, with no bonus: leftover pieces of 5 cells
\* in total score -5 and an empty inventory scores 0.
\* ------------------------------------------------------------------------
LeftoverCells(st, c) ==
    UNION { { <<p, rc>> : rc \in ALL_SHAPES[p] } : p \in st.pieces_remaining[c] }

C17_ScoreIsMinusLeftover ==
    lastOp = "scores" =>
        \A c \in Colors :
            /\ scores[c] = 0 - Cardinality(LeftoverCells(state, c))
            /\ Cardinality(LeftoverCells(state, c)) = 5 => scores[c] = 0 - 5
            /\ state.pieces_remaining[c] = {} => scores[c] = 0

\* Scores were computed for a position where one colour holds the domino
\* and the straight tromino (5 cells) and another colour holds nothing.
C17_Witness ==
    /\ lastOp = "scores"
    /\ \E c, d \in Colors :
          /\ state.pieces_remaining[c] = {1, 2}
          /\ scores[c] = 0 - 5
          /\ state.pieces_remaining[d] = {}
          /\ scores[d] = 0

\* ------------------------------------------------------------------------
\* C12: from any reachable state four passes in a row give a terminal
\* state; from a state with consecutive_passes = 0 and a non-empty
\* inventory, one, two or three passes give a state that is not terminal.
\* Stated at every position of a play, for the passes a caller could apply
\* to it and for the passes the play has applied.
\* ------------------------------------------------------------------------
SomePieceLeft(st) == \E c \in Colors : st.pieces_remaining[c] # {}

C12_FourPassesEnd ==
    AtPosition =>
        LET p1 == apply_move(state, NoMove)
            p2 == apply_move(p1, NoMove)
            p3 == apply_move(p2, NoMove)
            p4 == apply_move(p3, NoMove)
        IN  /\ is_terminal(p4)
            /\ (state.consecutive_passes = 0 /\ SomePieceLeft(state)) =>
                  (~is_terminal(p1) /\ ~is_terminal(p2) /\ ~is_terminal(p3))
            /\ TrailingPasses(history) >= 4 => is_terminal(state)
            /\ (TrailingPasses(history) \in 1..3 /\ SomePieceLeft(state)) =>
                  ~is_terminal(state)

\* A placement followed by four passes: the play has ended by passes with
\* pieces left in hand.
C12_Witness ==
    /\ lastOp = "pass"
    /\ ply >= 5
    /\ history[ply - 4] # NoMove
    /\ TrailingPasses(history) = 4
    /\ SomePieceLeft(state)
    /\ is_terminal(state)

\* ------------------------------------------------------------------------
\* Vocabulary for calls of apply_move with an unchecked placement: the
\* state given, the state returned, and which calls ended by an exception.
\* ------------------------------------------------------------------------
UncheckedCall == lastOp \in {"apply", "KeyError", "IndexError"}

Returned == lastOp = "apply"

GivenState == held[lastInput]

ReturnedState == held[Len(heap)]

BoardCells == Rows \X Rows

\* ------------------------------------------------------------------------
\* C13: apply_move with a placement for which check_legal_move is false
\* fails with an error instead of returning a state; it never returns a
\* state in which an occupied cell changed owner or a cell outside the
\* placement's coordinates was written.
\* ------------------------------------------------------------------------
C13_IllegalPlacementFails ==
    (UncheckedCall /\ ~check_legal_move(GivenState, lastMove)) =>
        /\ ~Returned
        /\ Returned =>
              \A cell \in BoardCells :
                 /\ OwnerAt(GivenState, cell) # None =>
                       OwnerAt(ReturnedState, cell) = OwnerAt(GivenState, cell)
                 /\ cell \notin MoveCells(lastMove) =>
                       OwnerAt(ReturnedState, cell) = OwnerAt(GivenState, cell)

\* ------------------------------------------------------------------------
\* C15: apply_move with a placement whose piece id is not among the mover's
\* remaining pieces raises an error, returns no state and leaves the state
\* it was given (and every other state held) unchanged.
\* ------------------------------------------------------------------------
C15_UnavailablePieceRaises ==
    (UncheckedCall /\ ~PieceHeld(GivenState, lastMove)) =>
        /\ lastOp = "KeyError"
        /\ Len(heap) \notin HeldStates
        /\ \A s \in HeldStates : Deref(heap, s) = held[s]

\* A colour that has not moved yet asks for a piece it does not hold, on
\* empty cells of the board that cover its corner: the call raised, and the
\* state it was given reads as before.
C15_Witness ==
    /\ lastOp = "KeyError"
    /\ Cardinality(HeldStates) >= 2
    /\ ~PieceHeld(GivenState, lastMove)
    /\ AllOnBoardAndEmpty(GivenState, lastMove)
    /\ \E corner \in MoveCells(lastMove) :
          corner[1] \in {0, BOARD_SIZE - 1} /\ corner[2] \in {0, BOARD_SIZE - 1}
    /\ Deref(heap, lastInput) = GivenState

\* ------------------------------------------------------------------------
\* C14: on a terminal state get_legal_moves and apply_move signal an error
\* (OperationOnTerminalState) instead of returning: no list of moves has
\* been returned for a terminal position, and apply_move of a pass or of
\* any candidate placement on it raises.
\* ------------------------------------------------------------------------
C14_TerminalStateRejected ==
    is_terminal(state) =>
        /\ lastOp # "enumerate"
        /\ apply_move_raises(state, NoMove) # "none"
        /\ \A mv \in CandidateMoves : apply_move_raises(state, mv) # "none"

TopLeftAligned(cells) ==
    /\ \E rc \in cells : rc[1] = 0
    /\ \E rc \in cells : rc[2] = 0
    /\ \A rc \in cells : rc[1] >= 0 /\ rc[2] >= 0

OrientationsReturned == lastOp \in {"orientations", "rotate_90", "flip_horizontal"}

\* ------------------------------------------------------------------------
\* C18: for every shape of ALL_SHAPES, get_all_orientations returns between
\* 1 and 8 distinct cell sets, each with minimum row 0 and minimum column
\* 0 and as many cells as the shape, and the returned collection is closed
\* under rotate_90 and flip_horizontal.
\* ------------------------------------------------------------------------
C18_OrientationsWellFormed ==
    OrientationsReturned =>
        /\ Cardinality(orients) \in 1..8
        /\ \A o \in orients :
              TopLeftAligned(o) /\ Cardinality(o) = Cardinality(base_shape)
        /\ lastOp \in {"rotate_90", "flip_horizontal"} => image \in orients

\* A piece with eight orientations was flipped and the image is another of
\* the eight.
C18_Witness ==
    /\ lastOp = "flip_horizontal"
    /\ Cardinality(orients) = 8
    /\ image \in orients
    /\ image # base_shape

\* ------------------------------------------------------------------------
\* C19: ALL_SHAPES holds 21 pairwise distinct pieces: no two ids have the
\* same cell set, no shape is a rotation or reflection of another id's
\* shape, and every shape is normalized.
\* ------------------------------------------------------------------------
C19_ShapesPairwiseDistinct ==
    /\ Cardinality(DOMAIN ALL_SHAPES) = 21
    /\ TopLeftAligned(base_shape)
    /\ \A q \in DOMAIN ALL_SHAPES :
          q # piece_id =>
             /\ ALL_SHAPES[q] # base_shape
             /\ lastOp = "orientations" => ALL_SHAPES[q] \notin orients

\* ------------------------------------------------------------------------
\* Vocabulary for search trees.
\* ------------------------------------------------------------------------
ChildrenOf(n) == { tree[n].children[i][2] : i \in 1..Len(tree[n].children) }

RECURSIVE VisitSum(_)
VisitSum(nodes) ==
    IF nodes = {}
    THEN 0
    ELSE LET n == CHOOSE m \in nodes : TRUE
         IN  tree[n].visit_count + VisitSum(nodes \ {n})

UniformAndZero ==
    /\ \A i \in DOMAIN model.policy_logits :
          model.policy_logits[i] = model.policy_logits[0]
    /\ model.value = 0

\* ------------------------------------------------------------------------
\* C20: after mcts_search has run N simulations from a fresh root (visit
\* count 0, not expanded) of a non-terminal state, with a network that
\* gives uniform priors and value zero, the visit counts of the root's
\* children sum to exactly N.
\* ------------------------------------------------------------------------
C20_ChildVisitsSumToN ==
    (pc = "returned" /\ UniformAndZero) =>
        VisitSum(ChildrenOf(root)) = n_simulations

\* A game is over: four passes in a row, or no colour holds a piece.
Ended(st) ==
    \/ st.consecutive_passes >= 4
    \/ \A c \in Colors : st.pieces_remaining[c] = {}

\* The phase of a simulation that mcts_search is in.
InSimulation == pc \in {"select", "evaluate", "backup"}

\* ------------------------------------------------------------------------
\* C21: mcts_search(root, ..., n_simulations = n) performs exactly n
\* simulations.  Each starts its selection at root, only after the backup
\* of the one before; selection descends from a node to one of its
\* children; nodes are added to the tree only at the end of selection, to a
\* leaf that is unexpanded and whose state is not terminal; evaluate
\* follows, then backup, which counts one visit at the root.  When the call
\* returns, n simulations have run and root.visit_count has grown (from the
\* 0 of the fresh root) by exactly n.
\* ------------------------------------------------------------------------
C21_SimulationsInSequence ==
    /\ [][ /\ (pc' = "select" /\ pc # "select") =>
                 (pc = "idle" /\ node' = root /\ simulations' = simulations + 1)
           /\ (pc = "select" /\ pc' = "select") =>
                 (node' \in ChildrenOf(node) /\ tree' = tree)
           /\ (pc' = "evaluate" /\ pc # "evaluate") => pc = "select"
           /\ Len(tree') > Len(tree) =>
                 /\ pc = "select" /\ pc' = "evaluate"
                 /\ ~tree[node].expanded
                 /\ ~Ended(tree[node].state)
           /\ (pc' = "backup" /\ pc # "backup") =>
                 (pc = "evaluate" /\ tree' = tree)
           /\ (pc' = "idle" /\ pc # "idle") =>
                 /\ pc = "backup"
                 /\ tree'[root].visit_count = tree[root].visit_count + 1
           /\ simulations' # simulations => pc = "idle"
           /\ (pc' = "returned" /\ pc # "returned") =>
                 (pc = "idle" /\ simulations = n_simulations) ]_vars
    /\ [](InSimulation => tree[root].visit_count = simulations - 1)
    /\ [](pc \in {"idle", "returned"} =>
              tree[root].visit_count = simulations)
    /\ [](pc = "returned" =>
              /\ simulations = n_simulations
              /\ tree[root].visit_count = n_simulations)

\* A search of at least two simulations has returned and its later
\* simulations went down from the root into a child.
C21_Witness ==
    /\ pc = "returned"
    /\ n_simulations >= 2
    /\ VisitSum(ChildrenOf(root)) >= 1

RECURSIVE Mass(_, _)
\* The numerators of the entries of a dictionary of probabilities, added up.
Mass(d, keys) ==
    IF keys = {}
    THEN 0
    ELSE LET k == CHOOSE x \in keys : TRUE
         IN  d[k][1] + Mass(d, keys \ {k})

\* ------------------------------------------------------------------------
\* C22: the dictionary decode_policy returns has entries for piece ids of
\* legal_piece_ids and for pass only, pass always among them, and these
\* entries are a whole distribution (they add up to 1), so that no mass is
\* anywhere else.  The raw logit of an id outside legal_piece_ids counts
\* for nothing: an entry is positive exactly when its logit is the largest
\* among the legal ids and pass.  For an empty legal_piece_ids the result
\* is exactly {pass: 1.0}.
\* ------------------------------------------------------------------------
C22_SupportIsLegalAndPass ==
    lastOp = "decode_policy" =>
        LET allowed == legal_ids \cup {pass_index}
            logits  == model.policy_logits
        IN  /\ DOMAIN out_dict \subseteq allowed
            /\ legal_ids \subseteq DOMAIN out_dict
            /\ pass_index \in DOMAIN out_dict
            /\ \A k \in DOMAIN out_dict :
                  /\ out_dict[k][1] >= 0 /\ out_dict[k][2] > 0
                  /\ out_dict[k][2] = out_dict[pass_index][2]
                  /\ out_dict[k][1] > 0 <=>
                        \A j \in allowed : logits[j] <= logits[k]
            /\ Mass(out_dict, DOMAIN out_dict) = out_dict[pass_index][2]
            /\ legal_ids = {} => out_dict = (pass_index :> <<1, 1>>)

\* decode_policy was given legal ids while the logit of an id that is not
\* legal was above every legal one and above that of pass.
C22_Witness ==
    /\ lastOp = "decode_policy"
    /\ legal_ids # {}
    /\ \E i \in (0..(pass_index - 1)) \ legal_ids :
          \A j \in legal_ids \cup {pass_index} :
              model.policy_logits[i] > model.policy_logits[j]

\* The prior that the expansion of node n recorded for an action key.
RecordedPrior(n, key) ==
    tree[n].priors[CHOOSE i \in 1..Len(tree[n].priors) :
                       tree[n].priors[i][1] = key][2]

\* Two probabilities are the same number.
SameNumber(p, q) == p[1] * q[2] = q[1] * p[2]

\* ------------------------------------------------------------------------
\* C23: when selection at an expanded node scores a visited child, the
\* prior that enters the score is the one the node recorded for that
\* child's action key when it was expanded (the node's priors[action_key]).
\* ------------------------------------------------------------------------
C23_PriorIsParentsRecord ==
    (pc = "select" /\ tree[node].expanded) =>
        \A i \in 1..Len(tree[node].children) :
            LET key   == tree[node].children[i][1]
                child == tree[tree[node].children[i][2]]
            IN  child.visit_count > 0 =>
                    SameNumber(ucb_operands(child)[3], RecordedPrior(node, key))

\* Some child of node n has never been visited.
HasUnvisitedChild(n) == \E c \in ChildrenOf(n) : tree[c].visit_count = 0

\* ------------------------------------------------------------------------
\* C24: a selection step at a node that has a child with visit_count 0
\* descends into a child with visit_count 0; and in every tree the search
\* builds, no child has two or more visits while a sibling has none.
\* ------------------------------------------------------------------------
C24_UnvisitedChildFirst ==
    /\ [][ (pc = "select" /\ pc' = "select" /\ HasUnvisitedChild(node)) =>
              (node' \in ChildrenOf(node) /\ tree[node'].visit_count = 0) ]_vars
    /\ [](\A n \in 1..Len(tree) : \A c, d \in ChildrenOf(n) :
              ~(tree[c].visit_count >= 2 /\ tree[d].visit_count = 0))

\* A node with several children, among them one with a positive mean
\* value, has had each of them visited before one got its second visit.
C24_Witness ==
    \E n \in 1..Len(tree) :
        /\ Cardinality(ChildrenOf(n)) >= 2
        /\ \E c \in ChildrenOf(n) : tree[c].visit_count >= 2
        /\ \E d \in ChildrenOf(n) : tree[d].total_value > 0

\* ------------------------------------------------------------------------
\* Vocabulary for expanded nodes.  The weight the evaluator gives to an
\* action of the player to move is the softmax of the logits over the piece
\* ids the player holds and pass; with logits that are equal or 1000 apart
\* it is 1/k for each of the k largest and 0 for the others.
\* ------------------------------------------------------------------------
HeldIds(st) == st.pieces_remaining[st.current_player]

Largest(st, k) ==
    \A j \in HeldIds(st) \cup {pass_index} :
        model.policy_logits[j] <= model.policy_logits[k]

Weight(st, k) ==
    IF Largest(st, k)
    THEN <<1, Cardinality({j \in HeldIds(st) \cup {pass_index} : Largest(st, j)})>>
    ELSE <<0, 1>>

\* The items of node n's children dictionary: placements and pass.
PlacementItems(n) ==
    { i \in 1..Len(tree[n].children) : tree[n].children[i][1][1] # pass_index }

PassItems(n) ==
    { i \in 1..Len(tree[n].children) : tree[n].children[i][1][1] = pass_index }

PlacementsOf(st, pid) == { m \in get_legal_moves(st) : m[1] = pid }

\* Node n has the children that the expansion of a non-terminal node is to
\* make.
WellExpanded(n) ==
    LET st    == tree[n].state
        items == tree[n].children
    IN  /\ \A i, j \in DOMAIN items :
              (items[i][1] = items[j][1] \/ items[i][2] = items[j][2]) => i = j
        /\ \A i \in DOMAIN items : tree[items[i][2]].parent = n
        /\ Cardinality(PlacementItems(n)) = Cardinality(get_legal_moves(st))
        /\ \A m \in get_legal_moves(st) :
              \E i \in PlacementItems(n) :
                  /\ items[i][1][1] = m[1]
                  /\ tree[items[i][2]].state = apply_move(st, m)
        /\ \A i \in PlacementItems(n) :
              LET pid == items[i][1][1]
                  w   == Weight(st, pid)
              IN  SameNumber(RecordedPrior(n, items[i][1]),
                             <<w[1], w[2] * Cardinality(PlacementsOf(st, pid))>>)
        /\ Cardinality(PassItems(n)) <= 1
        /\ PassItems(n) # {} <=> Weight(st, pass_index)[1] > 0
        /\ \A i \in PassItems(n) :
              /\ tree[items[i][2]].state = apply_move(st, NoMove)
              /\ SameNumber(RecordedPrior(n, items[i][1]), Weight(st, pass_index))
        /\ Len(tree[n].priors) = Len(items)

\* ------------------------------------------------------------------------
\* C25: expanding a non-terminal node marks it expanded and gives it
\* exactly one child per move of get_legal_moves(node.state), with the node
\* as parent and the state apply_move(node.state, move), and one pass child
\* exactly when the evaluator's pass weight is not zero, whether placements
\* exist or not; the prior recorded for every placement child of a piece is
\* that piece's weight divided by the number of its legal placements.
\* Stated for the node just expanded; no later step changes the children,
\* the priors or the state of a node.
\* ------------------------------------------------------------------------
C25_OneChildPerLegalMove ==
    /\ [][ /\ (pc = "select" /\ pc' = "evaluate" /\ ~tree[node].expanded
                   /\ ~Ended(tree[node].state)) => tree'[node].expanded
           /\ \A n \in 1..Len(tree) :
                 tree[n].expanded =>
                     /\ tree'[n].children = tree[n].children
                     /\ tree'[n].priors = tree[n].priors
                     /\ tree'[n].state = tree[n].state ]_vars
    /\ []((pc = "evaluate" /\ tree[node].expanded /\ ~Ended(tree[node].state))
              => WellExpanded(node))

\* An expanded node with a pass child beside placements, two of them of
\* the same piece with a prior that is not zero.
C25_Witness ==
    \E n \in 1..Len(tree) :
        /\ tree[n].expanded
        /\ PassItems(n) # {}
        /\ \E i, j \in PlacementItems(n) :
              /\ i # j
              /\ tree[n].children[i][1][1] = tree[n].children[j][1][1]
              /\ RecordedPrior(n, tree[n].children[i][1])[1] > 0

\* ------------------------------------------------------------------------
\* C26: after the expansion of a non-terminal node whose player to move has
\* no legal placement, the node has exactly one child, the pass child,
\* whatever weight the evaluator gave to pass.
\* ------------------------------------------------------------------------
C26_BlockedNodeGetsPassChild ==
    (/\ pc = "evaluate"
     /\ tree[node].expanded
     /\ ~Ended(tree[node].state)
     /\ get_legal_moves(tree[node].state) = {})
        => /\ Len(tree[node].children) = 1
           /\ PassItems(node) = {1}

\* ------------------------------------------------------------------------
\* C27: a node whose state is terminal never gets children.  The expand
\* phase of a simulation that ends its selection on such a node changes
\* nothing; the simulation's value is the final score of the state's
\* current player (divided by 100, here in hundredths), and that value is
\* what the backup adds.  In every tree all nodes with children hold
\* non-terminal states.
\* ------------------------------------------------------------------------
C27_TerminalNodesStayLeaves ==
    /\ [](\A n \in 1..Len(tree) :
              Len(tree[n].children) > 0 => ~Ended(tree[n].state))
    /\ []((pc = "backup" /\ Ended(tree[node].state)) =>
              value = 0 - Cardinality(LeftoverCells(tree[node].state,
                                         tree[node].state.current_player)))
    /\ [][ (InSimulation /\ Ended(tree[node].state)) =>
              /\ (pc = "select" /\ pc' = "evaluate") => tree' = tree
              /\ pc = "evaluate" => pc' = "backup"
              /\ pc = "backup" =>
                    /\ Len(tree') = Len(tree)
                    /\ tree'[node].children = <<>>
                    /\ tree'[node].total_value = tree[node].total_value + value
                    /\ tree'[node].visit_count = tree[node].visit_count + 1 ]_vars

\* A simulation has ended its selection on a terminal node, whose current
\* player still holds pieces, and has backed its value up.
C27_Witness ==
    \E n \in 1..Len(tree) :
        /\ Ended(tree[n].state)
        /\ tree[n].visit_count >= 1
        /\ tree[n].total_value < 0

RECURSIVE UpFrom(_)
\* Node n, its parent, the parent's parent, and so on up to the node that
\* has no parent.
UpFrom(n) ==
    IF tree[n].parent = 0 THEN {n} ELSE {n} \cup UpFrom(tree[n].parent)

\* ------------------------------------------------------------------------
\* C28: backup_value(node, value) adds exactly 1 to visit_count and exactly
\* value, with nothing done to it, to total_value, at node and at each of
\* its ancestors up to and including the node without parent; the counts
\* and sums of all other nodes, and the children, priors, states, parents
\* and flags of all nodes, stay as they were, and no node is made.
\* ------------------------------------------------------------------------
C28_BackupAlongPath ==
    [][ (pc = "backup" /\ pc' = "idle") =>
          /\ Len(tree') = Len(tree)
          /\ \A n \in 1..Len(tree) :
                /\ n \in UpFrom(node) =>
                      /\ tree'[n].visit_count = tree[n].visit_count + 1
                      /\ tree'[n].total_value = tree[n].total_value + value
                /\ n \notin UpFrom(node) =>
                      /\ tree'[n].visit_count = tree[n].visit_count
                      /\ tree'[n].total_value = tree[n].total_value
                /\ tree'[n].children = tree[n].children
                /\ tree'[n].priors = tree[n].priors
                /\ tree'[n].state = tree[n].state
                /\ tree'[n].parent = tree[n].parent
                /\ tree'[n].expanded = tree[n].expanded
                /\ tree'[n].last_action_key = tree[n].last_action_key
          /\ root \in UpFrom(node) ]_vars

\* A value that is not zero has been backed up from a node two levels
\* below the root while a node off its path had been visited before.
C28_Witness ==
    /\ pc = "idle"
    /\ node # 0
    /\ value # 0
    /\ tree[node].visit_count >= 1
    /\ tree[node].parent # 0
    /\ tree[tree[node].parent].parent # 0
    /\ \E n \in 1..Len(tree) : n \notin UpFrom(node) /\ tree[n].visit_count >= 1

\* ------------------------------------------------------------------------
\* C29: in every tree mcts_search builds, the state of each child is
\* apply_move(parent.state, m) for m = pass or a move of
\* get_legal_moves(parent.state), a move that check_legal_move accepts; a
\* child's board differs from its parent's only in cells that were empty
\* and now belong to the parent's player to move, so no cell is written
\* twice.  Stated for the children of the node just expanded; the state and
\* the parent of a node never change afterwards.
\* ------------------------------------------------------------------------
C29_ChildrenByLegalMoves ==
    /\ [][ \A n \in 1..Len(tree) :
               /\ tree'[n].state = tree[n].state
               /\ tree'[n].parent = tree[n].parent ]_vars
    /\ [](pc = "evaluate" =>
            \A c \in ChildrenOf(node) :
                LET ps == tree[node].state
                    cs == tree[c].state
                IN  /\ tree[c].parent = node
                    /\ \E m \in get_legal_moves(ps) \cup {NoMove} :
                          /\ cs = apply_move(ps, m)
                          /\ m # NoMove => check_legal_move(ps, m)
                    /\ \A cell \in BoardCells :
                          OwnerAt(cs, cell) # OwnerAt(ps, cell) =>
                              /\ OwnerAt(ps, cell) = None
                              /\ OwnerAt(cs, cell) = Mover(ps))

\* A node below the root, on a board that already holds pieces, has just
\* been given placement children.
C29_Witness ==
    /\ pc = "evaluate"
    /\ node # root
    /\ PlacementItems(node) # {}
    /\ \E cell \in BoardCells : OwnerAt(tree[node].state, cell) # None

\* ------------------------------------------------------------------------
\* C30: every simulation that mcts_search starts completes its four phases.
\* Whenever mcts_search is not inside a simulation (between two
\* simulations, after it returned, after an exception of the evaluator
\* left it), the tree holds no expanded node with children whose
\* evaluation and backup did not run, that is, that has no visit.
\* ------------------------------------------------------------------------
C30_SimulationsComplete ==
    ~InSimulation =>
        \A n \in 1..Len(tree) :
            (tree[n].expanded /\ Len(tree[n].children) > 0) =>
                tree[n].visit_count >= 1

\* ------------------------------------------------------------------------
\* Whole games.  The driver loops of test_random_script.py, self_play.py and
\* evaluator.py run "while not is_terminal(state)" and replace the state by
\* apply_move(state, move), where move is a pass or comes from
\* get_legal_moves(state).  Here the loop runs to its end; the record of the
\* plies is not kept, so that a position reached by two plays is one state.
\* ------------------------------------------------------------------------

\* test_random_script.py:27-29, self_play.py:105-106: a pass is applied.
PlayPass ==
    /\ ~is_terminal(state)
    /\ state' = apply_move(state, NoMove)
    /\ lastOp' = "pass"
    /\ UNCHANGED <<history, lastMove, answer, legal, objects, aside>>

\* test_random_script.py:31-33: a move of get_legal_moves(state) is applied.
PlayPlacement ==
    /\ ~is_terminal(state)
    /\ \E mv \in get_legal_moves(state) : state' = apply_move(state, mv)
    /\ lastOp' = "place"
    /\ UNCHANGED <<history, lastMove, answer, legal, objects, aside>>

NextGame == PlayPass \/ PlayPlacement

SpecGame == Init /\ [][NextGame]_vars

\* The loop body is straight-line code: a driver that is in the loop takes
\* its next ply.
SpecGameFair == SpecGame /\ WF_vars(NextGame)

\* Pieces still held, over the four colours.
PiecesLeft(st) ==
    Cardinality(UNION { {<<c, p>> : p \in st.pieces_remaining[c]} : c \in Colors })

PlacementsMade(st) == sum_over(st.moves_made, Colors)

\* ------------------------------------------------------------------------
\* C34: every play of passes and legal placements reaches a terminal state
\* after finitely many plies.  Each colour places each of its pieces at most
\* once (4 * 21 = 84 placements with the full set), a state that is not
\* terminal has at most 3 passes in a row behind it, and every ply either
\* uses up a piece or adds one to the run of passes, which ends the game at
\* four.
\* ------------------------------------------------------------------------
C34_PlayEnds ==
    /\ <>is_terminal(state)
    /\ [](/\ PlacementsMade(state) <= 4 * NUM_PIECE_IDS
          /\ PlacementsMade(state) + PiecesLeft(state) = 4 * NUM_PIECE_IDS
          /\ ~Ended(state) => state.consecutive_passes <= 3
          /\ state.consecutive_passes <= 4)
    /\ [][\/ PiecesLeft(state') = PiecesLeft(state) - 1
          \/ /\ PiecesLeft(state') = PiecesLeft(state)
             /\ state'.consecutive_passes = state.consecutive_passes + 1]_vars

\* A game that ended on the fourth pass in a row, after a colour had placed
\* every piece it held.
C34_Witness ==
    /\ is_terminal(state)
    /\ lastOp = "pass"
    /\ state.consecutive_passes = 4
    /\ \E c \in Colors : state.pieces_remaining[c] = {}

\* Board cells owned by a colour.
CellsOf(st, c) == {cell \in BoardCells : OwnerAt(st, cell) = c}

\* Cells of the pieces a colour no longer holds.
PlacedCells(st, c) ==
    UNION { { <<p, rc>> : rc \in ALL_SHAPES[p] } : p \in PieceIds \ st.pieces_remaining[c] }

\* ------------------------------------------------------------------------
\* C35: in every state of every game, each colour owns as many board cells
\* as the pieces it has placed have cells, which is the cell count of its
\* whole set (89 for the 21 pieces) plus its score; moves_made[c] and the
\* number of pieces it still holds add up to the size of the set (21); and
\* a cell that has an owner keeps that owner.
\* ------------------------------------------------------------------------
C35_CellsMatchPieces ==
    /\ [](\A c \in Colors :
            /\ Cardinality(CellsOf(state, c)) = Cardinality(PlacedCells(state, c))
            /\ Cardinality(CellsOf(state, c))
                 = leftover_squares(PieceIds) + compute_final_scores(state)[c]
            /\ state.moves_made[c] + Cardinality(state.pieces_remaining[c])
                 = NUM_PIECE_IDS)
    /\ [](leftover_squares(0..20) = 89)
    /\ [][\A cell \in BoardCells :
            OwnerAt(state, cell) # None => OwnerAt(state', cell) = OwnerAt(state, cell)]_vars

\* A colour has placed two pieces and another colour one.
C35_Witness ==
    \E c, d \in Colors :
        /\ c # d
        /\ state.moves_made[c] >= 2
        /\ Cardinality(CellsOf(state, c)) >= 3
        /\ state.moves_made[d] >= 1

\* ------------------------------------------------------------------------
\* C36: in every state of every game, a colour that has made no move owns
\* no cell, and a colour that has made a move owns its own corner
\* CORNER_POSITIONS[c].
\* ------------------------------------------------------------------------
C36_FirstMoveTakesCorner ==
    \A c \in Colors :
        /\ state.moves_made[c] = 0 => CellsOf(state, c) = {}
        /\ state.moves_made[c] >= 1 => OwnerAt(state, CORNER_POSITIONS[c]) = c

\* Three colours hold their corners and the fourth has yet to move.
C36_Witness ==
    /\ Cardinality({c \in Colors : state.moves_made[c] >= 1}) = 3
    /\ \E c \in Colors : state.moves_made[c] = 0 /\ CellsOf(state, c) = {}
    /\ \E c \in Colors : state.moves_made[c] >= 2

\* ------------------------------------------------------------------------
\* replay_buffer.py
\* ------------------------------------------------------------------------

\* Largest max_size a ReplayBuffer is made with.
MaxBufferSize == 2

\* Longest list of samples given to one push.
MaxBatch == 3

\* Samples pushed over the life of a buffer.
MaxPushed == 5

\* Distinct samples.
NumSamples == 2

Samples == 1..NumSamples

\* The lists of samples a call of push is given.
Batches == UNION { [1..n -> Samples] : n \in 0..MaxBatch }

RECURSIVE evict_newest(_, _)
\* Mutant of evict: pop() without an index, which removes the last element.
evict_newest(buf, limit) ==
    IF Len(buf) > limit
    THEN evict_newest(SubSeq(buf, 1, Len(buf) - 1), limit)
    ELSE buf

RECURSIVE evict(_, _)
\* replay_buffer.py:21-22: while len(self.buffer) > self.max_size:
\* self.buffer.pop(0)
evict(buf, limit) ==
    IF Len(buf) > limit
    THEN evict(Tail(buf), limit)
    ELSE buf

\* replay_buffer.py:11-22: ReplayBuffer.push, the buffer it leaves.
push(buf, limit, samples) == evict(buf \o samples, limit)

\* replay_buffer.py:7-9, train_loop.py:33: ReplayBuffer(max_size).
InitReplay ==
    /\ max_size \in 0..MaxBufferSize
    /\ buffer = <<>>
    /\ pushed = <<>>
    /\ trajectory = <<>>
    /\ state = BoardState
    /\ history = <<>>
    /\ lastOp = "ReplayBuffer"
    /\ lastMove = NoMove
    /\ answer = FALSE
    /\ legal = {}
    /\ ObjectsIdle
    /\ scores = <<>>
    /\ PolicyIdle
    /\ piece_id = None
    /\ base_shape = {}
    /\ orients = {}
    /\ image = {}
    /\ SearchIdle

\* replay_buffer.py:11-22, train_loop.py:45: replay_buffer.push(samples).
Push ==
    /\ \E samples \in Batches :
          /\ Len(pushed) + Len(samples) <= MaxPushed
          /\ buffer' = push(buffer, max_size, samples)
          /\ pushed' = pushed \o samples
    /\ lastOp' = "push"
    /\ UNCHANGED <<values, lastMove, objects, scores, policy, trajectory,
                   max_size, geometry, search>>

NextReplay == Push

SpecReplay == InitReplay /\ [][NextReplay]_vars

\* The last n elements of a sequence.
LastOf(seq, n) == SubSeq(seq, Len(seq) - n + 1, Len(seq))

\* ------------------------------------------------------------------------
\* C37: after any sequence of push calls the buffer holds the last
\* min(total pushed, max_size) samples, in the order they were pushed; its
\* length is at most max_size, and a push removes from the front only.
\* ------------------------------------------------------------------------
C37_BufferIsNewestSamples ==
    /\ [](LET total == Len(pushed)
              kept == IF total < max_size THEN total ELSE max_size
          IN  /\ Len(buffer) = kept
              /\ Len(buffer) <= max_size
              /\ buffer = LastOf(pushed, kept))
    /\ [][\E samples \in Batches : \E k \in 0..(Len(buffer) + Len(samples)) :
            /\ pushed' = pushed \o samples
            /\ buffer' = LastOf(buffer \o samples,
                                Len(buffer) + Len(samples) - k)]_vars

\* A push into a full buffer of two different samples that had to evict.
C37_Witness ==
    /\ lastOp = "push"
    /\ max_size >= 2
    /\ Len(pushed) > max_size + 1
    /\ Len(buffer) = max_size
    /\ buffer[1] # buffer[2]

\* ------------------------------------------------------------------------
\* self_play.py: run_self_play_game.  The driver keeps one root over the
\* turns of a game: after each mcts_search it builds the policy target from
\* the visit counts of the root's children, samples an action from it and
\* makes the child it chose the root of the next search.
\* ------------------------------------------------------------------------

\* Turns of a self-play game that are followed.
MaxTurns == 3

RECURSIVE visits_get(_, _, _)
\* self_play.py:41-50: visits[key], the visit counts of the children whose
\* action key starts with key, added up in the order of the items.
visits_get(t, items, key) ==
    IF items = <<>>
    THEN 0
    ELSE (IF Head(items)[1][1] = key THEN t[Head(items)[2]].visit_count ELSE 0)
            + visits_get(t, Tail(items), key)

\* self_play.py:39-50: the dictionary visits, whose keys are the piece ids
\* of the root's children and pass (here pass_index).
visits(t, n) ==
    [key \in {t[n].children[i][1][1] : i \in 1..Len(t[n].children)} |->
        visits_get(t, t[n].children, key)]

\* self_play.py:40, 44
total_visits(t, n) == sum_over(visits(t, n), DOMAIN visits(t, n))

\* self_play.py:53-59: pi, as fractions; an entry that is not assigned
\* stays 0.0.
policy_target(t, n) ==
    [i \in 0..pass_index |->
        IF i \in DOMAIN visits(t, n)
        THEN <<visits(t, n)[i], total_visits(t, n)>>
        ELSE <<0, 1>>]

\* self_play.py:56, 59, 68: the exception that ends the loop body, "none"
\* when it runs to its end.  A key of visits is divided by total_visits
\* whatever its count; random.choices refuses weights whose total is zero.
commit_raises(t, n) ==
    IF DOMAIN visits(t, n) # {} /\ total_visits(t, n) = 0
    THEN "ZeroDivisionError"
    ELSE IF DOMAIN visits(t, n) = {}
    THEN "ValueError"
    ELSE "none"

\* self_play.py:77-89: max(valid_children, key=visit_count), the first of
\* the most visited children of the piece, as an item of root.children.
best_child(t, n, pid) ==
    LET items == t[n].children
        valid_children == {i \in 1..Len(items) : items[i][1][1] = pid}
        count(i) == t[items[i][2]].visit_count
    IN  items[CHOOSE i \in valid_children :
                /\ \A j \in valid_children : count(j) <= count(i)
                /\ \A j \in valid_children : j < i => count(j) < count(i)]

\* Mutant of reroot: the new root keeps its parent.
reroot_keeps_parent(t, n) == t

\* self_play.py:101-102, 110-111: root = <child>; root.parent = None
reroot(t, n) == [t EXCEPT ![n].parent = 0]

\* self_play.py:26-30: st = BoardState(); root = MCTSNode(st), with the
\* model and n_mcts_sim that run_self_play_game is given.
InitSelfPlay ==
    /\ state = BoardState
    /\ tree = <<MCTSNode(BoardState, 0)>>
    /\ root = 1
    /\ model \in Models
    /\ n_simulations \in 1..MaxSims
    /\ simulations = 0
    /\ pc = "idle"
    /\ node = 0
    /\ value = 0
    /\ trajectory = <<>>
    /\ buffer = <<>>
    /\ max_size = 0
    /\ pushed = <<>>
    /\ scores = <<>>
    /\ PolicyIdle
    /\ piece_id = None
    /\ base_shape = {}
    /\ orients = {}
    /\ image = {}
    /\ history = <<>>
    /\ lastOp = "init"
    /\ lastMove = NoMove
    /\ answer = FALSE
    /\ legal = {}
    /\ ObjectsIdle

\* self_play.py:33, 37-114: the rest of the loop body after mcts_search
\* has returned, and the loop test that follows it.  random.choices draws
\* an index whose weight is positive, so the piece drawn has children and
\* best_child is assigned in the same turn.
CommitPly ==
    /\ pc = "returned"
    /\ Len(trajectory) < MaxTurns
    /\ commit_raises(tree, root) = "none"
    /\ trajectory' = Append(trajectory, policy_target(tree, root))
    /\ \E action_index \in {i \in DOMAIN visits(tree, root) : visits(tree, root)[i] > 0} :
          IF action_index = pass_index
          THEN /\ state' = apply_move(state, NoMove)
               /\ IF \E i \in 1..Len(tree[root].children) :
                        tree[root].children[i][1] = <<pass_index, 0>>
                  THEN /\ root' = dict_get(tree[root].children, <<pass_index, 0>>)
                       /\ tree' = reroot(tree, root')
                  ELSE /\ root' = Len(tree) + 1
                       /\ tree' = Append(tree, MCTSNode(state', 0))
          ELSE /\ root' = best_child(tree, root, action_index)[2]
               /\ state' = tree[root'].state
               /\ tree' = reroot(tree, root')
    /\ simulations' = 0
    /\ node' = 0
    /\ value' = 0
    /\ pc' = IF is_terminal(state') THEN "done" ELSE "idle"
    /\ UNCHANGED <<model, n_simulations, buffer, max_size, pushed>>
    /\ UNCHANGED <<history, answer, legal, lastOp, lastMove, objects, scores,
                   policy, geometry>>

\* self_play.py:56, 59, 68: the loop body ends in an exception, which
\* nothing catches.  pi is appended to the trajectory before random.choices
\* is called, not before the division.
CommitRaises ==
    /\ pc = "returned"
    /\ Len(trajectory) < MaxTurns
    /\ commit_raises(tree, root) # "none"
    /\ pc' = commit_raises(tree, root)
    /\ trajectory' = IF commit_raises(tree, root) = "ValueError"
                     THEN Append(trajectory, policy_target(tree, root))
                     ELSE trajectory
    /\ UNCHANGED <<tree, root, model, n_simulations, simulations, node, value,
                   buffer, max_size, pushed>>
    /\ UNCHANGED <<values, lastOp, lastMove, objects, scores, policy, geometry>>

NextSelfPlay ==
    \/ StartSimulation \/ Descend \/ Expand \/ Evaluate \/ Backup \/ Return
    \/ CommitPly \/ CommitRaises

SpecSelfPlay == InitSelfPlay /\ [][NextSelfPlay]_vars

RECURSIVE Below(_)
\* Node n and everything under it: the nodes the driver can still reach
\* from n through children dictionaries.
Below(n) == {n} \cup UNION { Below(c) : c \in ChildrenOf(n) }

\* The nodes the driver has let go of.
Discarded == (1..Len(tree)) \ Below(root)

Committed == Len(trajectory) >= 1 /\ pc \in {"idle", "select", "evaluate", "backup", "returned", "done"}

\* ------------------------------------------------------------------------
\* C31: after the self-play driver commits a ply, the new root has no
\* parent and is the chosen child of the old root or a fresh node; later
\* backups stop at the new root, so the visit counts and value sums of the
\* old root and of the subtrees of the children not chosen never change
\* again, and no node under the new root refers to them.
\* ------------------------------------------------------------------------
C31_CommitCutsTree ==
    /\ [](Committed =>
            /\ tree[root].parent = 0
            /\ \A n \in Below(root) \ {root} : tree[n].parent \in Below(root))
    /\ [][root' # root =>
            \/ /\ root' \in ChildrenOf(root)
               /\ visits(tree, root)[tree[root'].last_action_key[1]] > 0
            \/ /\ root' = Len(tree) + 1
               /\ tree'[root'] = MCTSNode(state', 0)]_vars
    /\ [][\A n \in Discarded :
            /\ n \in 1..Len(tree')
            /\ n \notin Below(root)'
            /\ tree'[n].visit_count = tree[n].visit_count
            /\ tree'[n].total_value = tree[n].total_value]_vars

\* Two plies are committed and a backup has run under the second root: the
\* first root and a visited child that was not chosen are let go of.
C31_Witness ==
    /\ Len(trajectory) >= 2
    /\ pc = "idle"
    /\ simulations >= 2
    /\ 1 \in Discarded
    /\ \E n \in Discarded : n # 1 /\ tree[n].visit_count >= 1 /\ tree[n].parent = 1

\* mcts_search is between two simulations, or has returned.
BetweenSimulations == pc \in {"idle", "returned", "done"}

\* ------------------------------------------------------------------------
\* C32: in every tree that calls of mcts_search and the re-rooting of the
\* self-play driver produce, a node that has a child has one visit more
\* than its children have together, and a node without a visit has no child
\* and is not expanded.  The tree is what hangs under the root in use; a
\* root the driver has left keeps the count it had while its chosen child
\* goes on being visited.
\* ------------------------------------------------------------------------
C32_VisitsAddUp ==
    BetweenSimulations =>
        \A n \in Below(root) :
            /\ ChildrenOf(n) # {} =>
                  tree[n].visit_count = 1 + VisitSum(ChildrenOf(n))
            /\ tree[n].visit_count = 0 =>
                  ChildrenOf(n) = {} /\ ~tree[n].expanded

\* After a second ply was committed and searched: a discarded root, the
\* root in use with visited children, and a child never visited.
C32_Witness ==
    /\ pc = "returned"
    /\ Len(trajectory) >= 2
    /\ root # 1
    /\ tree[1].visit_count >= 3
    /\ VisitSum(ChildrenOf(root)) >= 2
    /\ \E n \in ChildrenOf(root) : tree[n].visit_count = 0
    /\ \E n \in ChildrenOf(root) : ChildrenOf(n) # {}

\* ------------------------------------------------------------------------
\* C33: in run_self_play_game, for every n_mcts_sim >= 1 and on every turn,
\* the visit counts of the root's children add up to a positive total when
\* the policy target is built after mcts_search, so the division is
\* defined, the target sums to 1 and the action drawn has a child.
\* ------------------------------------------------------------------------
C33_TargetDefined ==
    /\ pc = "returned" => total_visits(tree, root) > 0
    /\ pc \notin {"ZeroDivisionError", "ValueError"}
    /\ \A k \in 1..Len(trajectory) :
          LET pi == trajectory[k]
              drawable == {i \in DOMAIN pi : pi[i][1] > 0}
          IN  /\ drawable # {}
              /\ \A i \in drawable :
                    sum_over([j \in DOMAIN pi |-> pi[j][1]], DOMAIN pi) = pi[i][2]

====
